---- MODULE Spec2Model ----
(***************************************************************************)
(* Model of the asynchronous message pipeline of the chatbot: the Bull     *)
(* queue 'message-processing' with its retry policy, the job handler       *)
(* processMessage, the AIService primary/fallback orchestration, the       *)
(* conversation/message store and the platform dispatcher; and of the      *)
(* webhook router in front of the queue with its signature verifiers.      *)
(*                                                                         *)
(* Every awaited call of the handler is one step of the job's worker, so   *)
(* that several workers interleave at exactly the suspension points of the *)
(* code.  An awaited call either resolves or rejects; which of the two is  *)
(* chosen nondeterministically.                                            *)
(***************************************************************************)
EXTENDS Integers, Sequences, FiniteSets, TLC

\* ------------------------------------------------------------------ bounds
MaxJobs == 1
MaxClients == 2
MaxOps == 4
MaxRetries == 1
MaxChunks == 2

\* ------------------------------------------------------- program constants
\* queue-manager.ts: defaultJobOptions.attempts
attempts == 3
\* queue-manager.ts: defaultJobOptions.backoff.delay, in seconds
backoffDelay == 1
\* message-processor: messageQueue.process('process-message', 5, ...)
concurrency == 5
\* message-processor: getConversationHistory(conversation.id, 4000)
contextTokens == 4000
\* server.ts: createRawBodyCapture({ limit: 512 * 1024, ... }): 524288 bytes
limit == 524288

JobIds == 1..MaxJobs

\* MessageJob.platform
Platforms == {"telegram", "slack", "discord"}

\* The text of an inbound message.
Texts == {"hello"}

ApologyText == "Sorry, I encountered an error processing your message. Please try again later."

SystemInstruction ==
  [role |-> "system",
   content |-> "You are a helpful AI assistant. Respond concisely and helpfully to user messages."]

\* ------------------------------------------------------------------ errors
\* A JavaScript Error: its message and the errors attached to it as causes.
\* No Error of this program is constructed with a cause.
Err(msg) == [message |-> msg, causes |-> {}]

NoError == Err("")
QueueError == Err("Connection is closed.")
StoreError == Err("database error")
PrimaryError == Err("OpenAI API failed: upstream error")
FallbackError == Err("Self-hosted API failed: upstream error")
AllFailedError == Err("All AI providers failed")
UnknownPlatformError(platform) == Err("Unknown platform: " \o platform)

\* ------------------------------------------------------------------- state
VARIABLES
  fallbackConfigured, \* AIService.fallbackProvider is set
  jstate,        \* queue state of each job
  jdata,         \* job.data
  attemptsMade,  \* job.attemptsMade
  elapsed,       \* seconds since the job's last failed attempt, up to its backoff
  failedReason,  \* job.failedReason: the error of the last failed attempt
  progress,      \* job.progress()
  pc,            \* position of the worker running the job's handler
  conv,          \* handler local: conversation.id
  hist,          \* handler local: formattedMessages
  ai,            \* the AIService.processMessage call of the attempt
  err,           \* handler local: the error caught by the catch block
  conversations, \* table conversations
  messages,      \* table messages, in insertion order
  dbtime,        \* the store's clock
  invocations,   \* number of times the handler was invoked for the job
  steps,         \* the steps the current attempt has completed, in order
  gaps,          \* seconds between a failure and the start of the next attempt
  original,      \* the error that made the current attempt enter its catch block
  outbox,        \* the texts handed to sendPlatformResponse, per job
  early,         \* number of the job's attempts that threw before MessageModel.create
  call,          \* the ConversationService call each client has in progress
  started,       \* number of ConversationService calls begun by the clients
  raced,         \* some client began a call while another call was in progress
  torn,          \* some addMessage inserted its row and then failed to count it
  transport,     \* how the job's last call of sendPlatformResponse fared on the wire
  env,           \* process.env: which credentials are configured
  hook,          \* the HTTP request the webhook router is serving, and its response
  capture        \* the request whose body the raw-body middleware is reading

queueVars == <<jstate, jdata, attemptsMade, elapsed, failedReason, progress>>
ctlVars == <<pc, err, original, early>>
localVars == <<conv, hist, ai>>
storeVars == <<conversations, messages, dbtime>>
ghostVars == <<invocations, steps, gaps, outbox>>
svcVars == <<call, started, raced, torn>>
hookVars == <<env, hook, capture>>
\* What the queue and all of the handler but its dispatches leave alone.
otherVars == <<hookVars, svcVars, transport>>
vars == <<fallbackConfigured, queueVars, ctlVars, localVars, storeVars, ghostVars, svcVars,
          transport, hookVars>>

NoData == [platform |-> "", text |-> "", channelId |-> "", userId |-> "", messageId |-> 0]

\* AIResponse; totalTokens = 0 stands for a response without usage.
NoResponse == [content |-> "", totalTokens |-> 0]

\* One call of AIService.processMessage: the message list it built, the
\* argument lists of the chat calls made so far, and how it ended.
NoCall ==
  [messages |-> <<>>, primaryCalls |-> <<>>, fallbackCalls |-> <<>>,
   primaryErr |-> NoError, fallbackErr |-> NoError,
   returned |-> NoResponse, raised |-> <<>>]

\* The clients of ConversationService other than the job handler.
Clients == 1..MaxClients

\* The natural keys the clients use.
Keys ==
  {[platform |-> "telegram", channel_id |-> "42", user_id |-> "7"],
   [platform |-> "slack", channel_id |-> "42", user_id |-> "7"]}

\* The messages the clients add: role, content and options.token_count
\* and options.platform_message_id (0: not given).  "hello" is estimated at 2
\* tokens.
Drafts ==
  {[role |-> "user", content |-> "hello", token_count |-> 0, platform_message_id |-> 0],
   [role |-> "assistant", content |-> "hi", token_count |-> 3, platform_message_id |-> 0]}

\* The maxTokens and the keepCount arguments the clients supply.
Budgets == {0, 2, 4}
KeepCounts == {0, 1, 2}

NoKey == [platform |-> "", channel_id |-> "", user_id |-> ""]
NoDraft == [role |-> "", content |-> "", token_count |-> 0, platform_message_id |-> 0]

\* The origin of a row that no job wrote.
NoOrigin == [job |-> 0, attempt |-> 0]

\* A client with no call in progress and no call made yet.  A call in
\* progress holds its name, the await it is at (step), its arguments (key,
\* conv, draft, n), its locals (ids: keepIds) and, once it has ended, what it
\* returned (out, result).  before, lastAt and newestAt record what the store
\* held when the call's query ran, origin the job attempt that made the call.
NoOp ==
  [op |-> "none", step |-> "idle", key |-> NoKey, conv |-> 0, draft |-> NoDraft,
   n |-> 0, ids |-> {}, out |-> 0, result |-> <<>>,
   before |-> <<>>, lastAt |-> 0, newestAt |-> 0, origin |-> NoOrigin]

\* A deployment with every credential set: process.env as far as the webhook
\* router reads it, that is whether TELEGRAM_WEBHOOK_SECRET, TELEGRAM_BOT_TOKEN
\* and SLACK_SIGNING_SECRET are set.
Deployed == [webhookSecret |-> TRUE, botToken |-> TRUE, signingSecret |-> TRUE]

\* The deployments: every credential set, no Telegram secret token (the bot
\* token signs the requests), and no credential at all.
Envs ==
  {Deployed,
   [webhookSecret |-> FALSE, botToken |-> TRUE, signingSecret |-> TRUE],
   [webhookSecret |-> FALSE, botToken |-> FALSE, signingSecret |-> FALSE]}

\* The values of the credentials that are set, and a key of somebody else.
\* The secret token is the sequence of its characters; the header of a
\* request is one too, the empty sequence when the header is absent.
WebhookSecret == <<"s", "e", "c", "r", "e", "t">>
BotToken == "bot-token"
SigningSecret == "signing-secret"
ForeignKey == "guess"

\* A string of decimal digits followed by other characters: digits is the
\* number the digits spell, -1 when the string does not start with a digit,
\* and rest is what follows them.  The empty string is an absent header.
NoTimestamp == [digits |-> -1, rest |-> ""]

\* The body of a request: the raw text as captured by the raw-body
\* middleware, and what its JSON holds.  update_id: the JSON has a numeric
\* update_id; valid: the route's schema accepts the JSON; bot_id: the bot
\* that posted a Slack message, if a bot did.
NoBody ==
  [raw |-> "", update_id |-> FALSE, valid |-> FALSE, type |-> "", event |-> "",
   text |-> "", channel |-> "", user |-> "", id |-> 0, challenge |-> "",
   bot_id |-> ""]

\* An HMAC-SHA256 digest, by what was signed and with which key.
NoDigest == [key |-> "", ts |-> NoTimestamp, raw |-> ""]

\* A header that carries a signature: a prefix, the hexadecimal digits of a
\* digest in lower or upper case, all of them or (cut) their first half, and
\* a suffix.  An absent header is the empty string.
NoSignature ==
  [present |-> FALSE, prefix |-> "", digest |-> NoDigest, casing |-> "lower",
   cut |-> FALSE, suffix |-> ""]

NoRequest ==
  [rawBody |-> NoBody, secretToken |-> <<>>, signature |-> NoSignature,
   timestamp |-> NoTimestamp]

\* A comparison of a received credential with the expected one: whether one
\* was made, the lengths of the two values in bytes, and how many bytes of the
\* received value the comparison looked at before it returned.
NoComparison == [made |-> FALSE, received |-> 0, expected |-> 0, examined |-> 0]

\* What a verifier made of a request: not consulted, or returned a boolean,
\* or raised.
NotConsulted ==
  [called |-> FALSE, raised |-> FALSE, value |-> FALSE, comparison |-> NoComparison]

\* What AIService.isHealthy returns; fallback is "undefined" without a
\* fallback provider.
NoHealth == [primary |-> FALSE, fallback |-> "undefined", overall |-> FALSE]

\* The webhook router with no request in progress.  A request in progress
\* holds the route, the request, the clock reading of its verification, the
\* await it is at (step), what the verifier said, the job data handed to
\* messageQueue.add (job), the job data the queue took (added), the status
\* and the body of the response, and for /health what isHealthy returned.
NoHook ==
  [route |-> "none", step |-> "none", req |-> NoRequest, now |-> 0,
   tokenComparison |-> NoComparison, verified |-> NotConsulted,
   job |-> NoData, added |-> <<>>,
   status |-> 0, reply |-> "", health |-> NoHealth]

\* The raw-body middleware with no request: a request being read holds what
\* arrived of it (received: chunks, size: bytes counted, data: bytes kept),
\* the state of its stream and of the read timeout, req.rawBody (in bytes)
\* and req.body once they are set, the number of calls of next(), the
\* responses written, and whether a write to the response threw.
NoCapture ==
  [req |-> [json |-> FALSE, body |-> [chunks |-> <<>>, text |-> "blank"],
            errorAfterAborted |-> FALSE],
   stream |-> "none", timer |-> "unset", received |-> 0, size |-> 0, data |-> 0,
   rawBody |-> 0, body |-> "undefined", nexts |-> 0, responses |-> <<>>,
   threw |-> FALSE]

\* The state after construction, whatever the environment holds.
Constructed ==
  /\ fallbackConfigured \in BOOLEAN
  /\ jstate = [j \in JobIds |-> "none"]
  /\ jdata = [j \in JobIds |-> NoData]
  /\ attemptsMade = [j \in JobIds |-> 0]
  /\ elapsed = [j \in JobIds |-> 0]
  /\ failedReason = [j \in JobIds |-> NoError]
  /\ progress = [j \in JobIds |-> 0]
  /\ pc = [j \in JobIds |-> "idle"]
  /\ conv = [j \in JobIds |-> 0]
  /\ hist = [j \in JobIds |-> <<>>]
  /\ ai = [j \in JobIds |-> NoCall]
  /\ err = [j \in JobIds |-> NoError]
  /\ conversations = <<>>
  /\ messages = <<>>
  /\ dbtime = 0
  /\ invocations = [j \in JobIds |-> 0]
  /\ steps = [j \in JobIds |-> <<>>]
  /\ gaps = [j \in JobIds |-> <<>>]
  /\ original = [j \in JobIds |-> NoError]
  /\ outbox = [j \in JobIds |-> <<>>]
  /\ early = [j \in JobIds |-> 0]
  /\ call = [w \in Clients |-> NoOp]
  /\ started = 0
  /\ raced = FALSE
  /\ torn = FALSE
  /\ transport = [j \in JobIds |-> "none"]
  /\ hook = NoHook
  /\ capture = NoCapture

Init == Constructed /\ env = Deployed

\* ------------------------------------------------------------------- store
\* A lookup that does not filter on is_active.
findInactiveToo(platform, channel_id, user_id) ==
  LET match == {i \in 1..Len(conversations) :
                  /\ conversations[i].platform = platform
                  /\ conversations[i].channel_id = channel_id
                  /\ (user_id # "" => conversations[i].user_id = user_id)}
  IN IF match = {} THEN 0
     ELSE conversations[CHOOSE i \in match : \A k \in match : i <= k].id

\* A lookup that never finds the conversation of the key.
findNothing(platform, channel_id, user_id) == 0

\* ConversationModel.findByPlatformAndChannel: the active conversation of the
\* key with the latest last_message_at, 0 when there is none.
findByPlatformAndChannel(platform, channel_id, user_id) ==
  LET match == {i \in 1..Len(conversations) :
                  /\ conversations[i].platform = platform
                  /\ conversations[i].channel_id = channel_id
                  /\ (user_id # "" => conversations[i].user_id = user_id)
                  /\ conversations[i].is_active}
  IN IF match = {} THEN 0
     ELSE conversations[CHOOSE i \in match : \A k \in match :
            \/ conversations[k].last_message_at < conversations[i].last_message_at
            \/ (conversations[k].last_message_at = conversations[i].last_message_at
                /\ i <= k)].id

\* ConversationModel.create: the row inserted, with the defaults of the table.
ConversationRow(platform, channel_id, user_id, now) ==
  [id |-> now, platform |-> platform, channel_id |-> channel_id,
   user_id |-> user_id, message_count |-> 0, is_active |-> TRUE,
   created_at |-> now, last_message_at |-> now]

\* An insert that loses the content of the message.
MessageRowWithoutContent(conversation_id, role, content, platform_message_id, token_count, now, origin) ==
  [id |-> now, conversation_id |-> conversation_id, role |-> role,
   content |-> "", platform_message_id |-> platform_message_id,
   token_count |-> token_count, created_at |-> now, origin |-> origin]

\* MessageModel.create: the row inserted.  token_count = 0 stands for NULL.
\* origin names the job and the attempt that wrote the row (not a column).
MessageRow(conversation_id, role, content, platform_message_id, token_count, now, origin) ==
  [id |-> now, conversation_id |-> conversation_id, role |-> role,
   content |-> content, platform_message_id |-> platform_message_id,
   token_count |-> token_count, created_at |-> now, origin |-> origin]

\* An update of last_message_at that drops the increment.
touchLastMessageAt(convs, id, now) ==
  [i \in 1..Len(convs) |->
     IF convs[i].id = id THEN [convs[i] EXCEPT !.last_message_at = now] ELSE convs[i]]

\* ConversationModel.incrementMessageCount
incrementMessageCount(convs, id, now) ==
  [i \in 1..Len(convs) |->
     IF convs[i].id = id
     THEN [convs[i] EXCEPT !.message_count = @ + 1, !.last_message_at = now]
     ELSE convs[i]]

\* MessageModel.estimateTokenCount: Math.ceil(text.length / 4)
estimateTokenCount(text) == (Len(text) + 3) \div 4

\* message.token_count || estimateTokenCount(message.content)
messageTokens(m) ==
  IF m.token_count # 0 THEN m.token_count ELSE estimateTokenCount(m.content)

\* The rows of a conversation ordered by created_at ascending.
MessagesOf(msgs, conversation_id) ==
  LET Test(m) == m.conversation_id = conversation_id
  IN SelectSeq(msgs, Test)

Reverse(s) == [i \in 1..Len(s) |-> s[Len(s) + 1 - i]]

\* The loop of MessageModel.findConversationHistory over the rows newest
\* first: desc is what is left to scan, kept is filteredMessages.
RECURSIVE historyScan(_, _, _, _)
historyScan(desc, maxTokens, totalTokens, kept) ==
  IF desc = <<>> THEN kept
  ELSE IF totalTokens + messageTokens(Head(desc)) > maxTokens /\ Len(kept) > 0
       THEN kept
       ELSE historyScan(Tail(desc), maxTokens,
                        totalTokens + messageTokens(Head(desc)),
                        <<Head(desc)>> \o kept)

\* A history that is not put back into oldest-first order.
findConversationHistoryNewestFirst(msgs, conversation_id, maxTokens) ==
  LET desc == Reverse(MessagesOf(msgs, conversation_id))
  IN IF maxTokens = 0 THEN desc
     ELSE Reverse(historyScan(desc, maxTokens, 0, <<>>))

\* MessageModel.findConversationHistory; maxTokens = 0 is "not supplied".
findConversationHistory(msgs, conversation_id, maxTokens) ==
  LET desc == Reverse(MessagesOf(msgs, conversation_id))
  IN IF maxTokens = 0 THEN Reverse(desc)
     ELSE historyScan(desc, maxTokens, 0, <<>>)

\* ConversationService.formatMessagesForAI
formatMessagesForAI(ms) ==
  [i \in 1..Len(ms) |-> [role |-> ms[i].role, content |-> ms[i].content]]

\* MessageModel.deleteOldMessages, first query: the ids of the keepCount rows
\* of the conversation with the latest created_at.
newestIds(msgs, conversation_id, keepCount) ==
  LET rows == {i \in 1..Len(msgs) : msgs[i].conversation_id = conversation_id}
      Newer(i) == {k \in rows : msgs[k].created_at > msgs[i].created_at}
  IN {msgs[i].id : i \in {r \in rows : Cardinality(Newer(r)) < keepCount}}

\* MessageModel.deleteOldMessages, second query: the table without the rows
\* of the conversation whose id is not in keepIds.
deleteExcept(msgs, conversation_id, keepIds) ==
  LET Kept(m) == m.conversation_id # conversation_id \/ m.id \in keepIds
  IN SelectSeq(msgs, Kept)

\* A deactivation that closes every conversation.
deactivateAll(convs, id) ==
  [i \in 1..Len(convs) |-> [convs[i] EXCEPT !.is_active = FALSE]]

\* ConversationModel.deactivate
deactivate(convs, id) ==
  [i \in 1..Len(convs) |->
     IF convs[i].id = id THEN [convs[i] EXCEPT !.is_active = FALSE] ELSE convs[i]]

\* --------------------------------------------------------------- AIService
\* What client.chat.completions.create comes to: it rejects (a network error
\* or a response that is not 2xx), or it resolves with a completion that has
\* no choice, a choice without content, a choice with empty content, or a
\* choice with the given text; totalTokens = 0 stands for no usage.
NoCompletion ==
  [failed |-> FALSE, message |-> "", choices |-> 0, hasContent |-> FALSE,
   content |-> "", totalTokens |-> 0]

Completions(text, totalTokens) ==
  {[NoCompletion EXCEPT !.failed = TRUE, !.message = "upstream error"],
   NoCompletion,
   [NoCompletion EXCEPT !.choices = 1],
   [NoCompletion EXCEPT !.choices = 1, !.hasContent = TRUE],
   [NoCompletion EXCEPT !.choices = 1, !.hasContent = TRUE, !.content = text,
                        !.totalTokens = totalTokens]}

\* A chat that returns whatever content the completion holds.
chatUnchecked(name, completion) ==
  IF completion.failed
  THEN [threw |-> TRUE, error |-> Err(name \o " API failed: " \o completion.message),
        response |-> NoResponse]
  ELSE [threw |-> FALSE, error |-> NoError,
        response |-> [content |-> completion.content,
                      totalTokens |-> completion.totalTokens]]

\* OpenAIClient.chat and SelfHostedClient.chat, which differ in the name that
\* prefixes the message of the error they throw: what is thrown inside the
\* try block, the error for a completion without content included, is
\* caught and thrown again as `${name} API failed: ${error.message}`.
chat(name, completion) ==
  IF completion.failed
  THEN [threw |-> TRUE, error |-> Err(name \o " API failed: " \o completion.message),
        response |-> NoResponse]
  ELSE IF completion.choices = 0 \/ ~completion.hasContent \/ completion.content = ""
  THEN [threw |-> TRUE,
        error |-> Err(name \o " API failed: " \o "No content in AI response"),
        response |-> NoResponse]
  ELSE [threw |-> FALSE, error |-> NoError,
        response |-> [content |-> completion.content,
                      totalTokens |-> completion.totalTokens]]

\* How the chat of the primary (OpenAI) and of the fallback (self-hosted)
\* provider can end.  The primary reports its usage, the fallback does not.
PrimaryOutcomes == {chat("OpenAI", c) : c \in Completions("primary answer", 12)}
FallbackOutcomes == {chat("Self-hosted", c) : c \in Completions("fallback answer", 0)}

\* What a provider's chat can resolve to.
PrimaryResponses == {r.response : r \in {o \in PrimaryOutcomes : ~o.threw}}
FallbackResponses == {r.response : r \in {o \in FallbackOutcomes : ~o.threw}}

\* What a provider's chat can reject with.
PrimaryErrors == {r.error : r \in {o \in PrimaryOutcomes : o.threw}}
FallbackErrors == {r.error : r \in {o \in FallbackOutcomes : o.threw}}

\* A message list with the new user message ahead of the history.
BuildMessagesUserFirst(userMessage, conversationHistory) ==
  <<SystemInstruction, [role |-> "user", content |-> userMessage]>>
    \o conversationHistory

\* AIService.processMessage, lines 17-27: the message list of the call.
BuildMessages(userMessage, conversationHistory) ==
  <<SystemInstruction>> \o conversationHistory
    \o <<[role |-> "user", content |-> userMessage]>>

\* A fallback that is handed the conversation without the system instruction.
FallbackArgumentWithoutSystem(c) == Tail(c.messages)

\* The argument of this.fallbackProvider.chat (line 37).
FallbackArgument(c) == c.messages

\* await this.primaryProvider.chat(messages) resolves (line 30).
PrimaryReturns(userMessage, conversationHistory, resp) ==
  LET ms == BuildMessages(userMessage, conversationHistory)
  IN [NoCall EXCEPT !.messages = ms, !.primaryCalls = <<ms>>, !.returned = resp]

\* A primary failure wrapped like the failure of both providers.
RethrownAsAllFailed(error) == AllFailedError

\* The error thrown when the primary failed and no fallback is configured
\* (line 44: throw error).
RethrownWithoutFallback(error) == error

\* The error thrown when the fallback failed too (line 40).
ThrownWhenBothFail(error, fallbackError) == AllFailedError

\* await this.primaryProvider.chat(messages) rejects (lines 31-45).
PrimaryThrows(userMessage, conversationHistory, error, hasFallback) ==
  LET ms == BuildMessages(userMessage, conversationHistory)
      c == [NoCall EXCEPT !.messages = ms, !.primaryCalls = <<ms>>,
                          !.primaryErr = error]
  IN IF hasFallback THEN c
     ELSE [c EXCEPT !.raised = <<RethrownWithoutFallback(error)>>]

\* await this.fallbackProvider.chat(messages) resolves (line 37).
FallbackReturns(c, resp) ==
  [c EXCEPT !.fallbackCalls = Append(@, FallbackArgument(c)), !.returned = resp]

\* await this.fallbackProvider.chat(messages) rejects (lines 38-41).
FallbackThrows(c, fallbackError) ==
  [c EXCEPT !.fallbackCalls = Append(@, FallbackArgument(c)),
            !.fallbackErr = fallbackError,
            !.raised = Append(@, ThrownWhenBothFail(c.primaryErr, fallbackError))]

\* ------------------------------------------------------------------- queue
\* A backoff of type 'fixed': the same delay before every retry.
BackoffFixed(made) == backoffDelay

\* Bull's built-in 'exponential' backoff for the job's attemptsMade, as
\* configured by defaultJobOptions.backoff: (2^attemptsMade - 1) * delay.
Backoff(made) == (2 ^ made - 1) * backoffDelay

Active == {j \in JobIds : jstate[j] = "active"}

\* messageQueue.add('process-message', {...}): a job of any platform that
\* MessageJob admits is added, as the webhook routes do for telegram and
\* slack.  Job ids are handed out in order.
Enqueue(j, platform, text) ==
  /\ jstate[j] = "none"
  /\ \A i \in JobIds : i < j => jstate[i] # "none"
  /\ jstate' = [jstate EXCEPT ![j] = "waiting"]
  /\ jdata' = [jdata EXCEPT ![j] =
       [platform |-> platform, text |-> text, channelId |-> "42",
        userId |-> "7", messageId |-> j]]
  /\ UNCHANGED <<otherVars, fallbackConfigured, attemptsMade, elapsed, failedReason, progress,
                 ctlVars, localVars, storeVars, ghostVars>>

\* A free worker of messageQueue.process('process-message', 5, processMessage)
\* takes a waiting job and invokes the handler.
Start(j) ==
  /\ jstate[j] = "waiting"
  /\ Cardinality(Active) < concurrency
  /\ jstate' = [jstate EXCEPT ![j] = "active"]
  /\ pc' = [pc EXCEPT ![j] = "progress10"]
  /\ err' = [err EXCEPT ![j] = NoError]
  /\ original' = [original EXCEPT ![j] = NoError]
  /\ conv' = [conv EXCEPT ![j] = 0]
  /\ hist' = [hist EXCEPT ![j] = <<>>]
  /\ ai' = [ai EXCEPT ![j] = NoCall]
  /\ invocations' = [invocations EXCEPT ![j] = @ + 1]
  /\ steps' = [steps EXCEPT ![j] = <<>>]
  /\ gaps' = [gaps EXCEPT ![j] =
       IF attemptsMade[j] > 0 THEN Append(@, elapsed[j]) ELSE @]
  /\ transport' = [transport EXCEPT ![j] = "none"]
  /\ UNCHANGED <<hookVars, svcVars, fallbackConfigured, jdata, attemptsMade, elapsed,
                 failedReason, progress, early, storeVars, outbox>>

\* The handler returned: Bull moves the job to completed.
Completed(j) ==
  /\ pc[j] = "returned"
  /\ jstate' = [jstate EXCEPT ![j] = "completed"]
  /\ pc' = [pc EXCEPT ![j] = "idle"]
  /\ UNCHANGED <<otherVars, fallbackConfigured, jdata, attemptsMade, elapsed, failedReason,
                 progress, err, original, early, localVars, storeVars, ghostVars>>

\* A queue that gives up one attempt early.
StateAfterFailureGivingUpEarly(made) ==
  IF made < attempts - 1 THEN "delayed" ELSE "failed"

\* A queue that grants one attempt too many.
StateAfterFailureOffByOne(made) ==
  IF made <= attempts THEN "delayed" ELSE "failed"

\* A queue that leaves a job whose attempt failed in the active list instead
\* of scheduling its retry.
StateAfterFailureNotRescheduled(made) ==
  IF made < attempts THEN "active" ELSE "failed"

\* The state Bull moves a job to when an attempt failed, made being the
\* attempts made including that one.
StateAfterFailure(made) == IF made < attempts THEN "delayed" ELSE "failed"

\* The handler threw: Bull counts the attempt, records the reason and either
\* delays the job for a retry or moves it to failed.
Failed(j) ==
  /\ pc[j] = "thrown"
  /\ attemptsMade' = [attemptsMade EXCEPT ![j] = @ + 1]
  /\ failedReason' = [failedReason EXCEPT ![j] = err[j]]
  /\ jstate' = [jstate EXCEPT ![j] = StateAfterFailure(attemptsMade[j] + 1)]
  /\ elapsed' = [elapsed EXCEPT ![j] = 0]
  /\ pc' = [pc EXCEPT ![j] = "idle"]
  /\ UNCHANGED <<otherVars, fallbackConfigured, jdata, progress, err, original, early,
                 localVars, storeVars, ghostVars>>

\* The delayed jobs whose backoff has not passed yet.  The time a job has
\* waited is counted up to its backoff, so elapsed is a lower bound of it.
Timed == {j \in JobIds : /\ jstate[j] = "delayed"
                         /\ elapsed[j] < Backoff(attemptsMade[j])}

\* One second passes.
Tick ==
  /\ Timed # {}
  /\ elapsed' = [j \in JobIds |-> IF j \in Timed THEN elapsed[j] + 1 ELSE elapsed[j]]
  /\ UNCHANGED <<otherVars, fallbackConfigured, jstate, jdata, attemptsMade, failedReason,
                 progress, ctlVars, localVars, storeVars, ghostVars>>

\* The backoff of a delayed job has passed: Bull moves it back to waiting.
Promote(j) ==
  /\ jstate[j] = "delayed"
  /\ elapsed[j] >= Backoff(attemptsMade[j])
  /\ jstate' = [jstate EXCEPT ![j] = "waiting"]
  /\ UNCHANGED <<otherVars, fallbackConfigured, jdata, attemptsMade, elapsed, failedReason,
                 progress, ctlVars, localVars, storeVars, ghostVars>>

\* ----------------------------------------------------------- processMessage
\* The current attempt of job j.
Origin(j) == [job |-> j, attempt |-> invocations[j]]

\* The positions of the handler up to and including the await of
\* MessageModel.create for the inbound message: a call that rejects there
\* leaves no row of the attempt.
BeforeCreate == {"progress10", "findConv", "createConv", "insertUser"}

\* An awaited call inside the try block rejected: control is in the catch
\* block, before the apology is sent.
Throw(j, e) ==
  /\ pc' = [pc EXCEPT ![j] = "apology"]
  /\ err' = [err EXCEPT ![j] = e]
  /\ original' = [original EXCEPT ![j] = e]
  /\ early' = [early EXCEPT ![j] = IF pc[j] \in BeforeCreate THEN @ + 1 ELSE @]

\* The awaited call resolved: control is at the next statement.
Goto(j, next) ==
  /\ pc' = [pc EXCEPT ![j] = next]
  /\ UNCHANGED <<err, original, early>>

\* A handler that dispatches the response before persisting it.
AfterProgressDispatchFirst ==
  [progress10 |-> [n |-> 10, next |-> "findConv"],
   progress30 |-> [n |-> 30, next |-> "history"],
   progress50 |-> [n |-> 50, next |-> "aiPrimary"],
   progress70 |-> [n |-> 70, next |-> "send"],
   progress90 |-> [n |-> 90, next |-> "send"],
   progress100 |-> [n |-> 100, next |-> "returned"]]

\* The statement that follows each await job.progress(n) of the handler.
AfterProgress ==
  [progress10 |-> [n |-> 10, next |-> "findConv"],
   progress30 |-> [n |-> 30, next |-> "history"],
   progress50 |-> [n |-> 50, next |-> "aiPrimary"],
   progress70 |-> [n |-> 70, next |-> "insertAsst"],
   progress90 |-> [n |-> 90, next |-> "send"],
   progress100 |-> [n |-> 100, next |-> "returned"]]

\* await job.progress(n)
JobProgress(j) ==
  /\ pc[j] \in DOMAIN AfterProgress
  /\ \/ /\ progress' = [progress EXCEPT ![j] = AfterProgress[pc[j]].n]
        /\ Goto(j, AfterProgress[pc[j]].next)
     \/ /\ Throw(j, QueueError)
        /\ UNCHANGED progress
  /\ UNCHANGED <<otherVars, fallbackConfigured, jstate, jdata, attemptsMade, elapsed,
                 failedReason, localVars, storeVars, ghostVars>>

\* getOrCreateConversation: await ConversationModel.findByPlatformAndChannel
FindConv(j) ==
  /\ pc[j] = "findConv"
  /\ \/ LET c == findByPlatformAndChannel(jdata[j].platform, jdata[j].channelId,
                                          jdata[j].userId)
        IN /\ conv' = [conv EXCEPT ![j] = c]
           /\ Goto(j, IF c = 0 THEN "createConv" ELSE "insertUser")
     \/ /\ Throw(j, StoreError)
        /\ UNCHANGED conv
  /\ UNCHANGED <<otherVars, fallbackConfigured, queueVars, hist, ai, storeVars, ghostVars>>

\* getOrCreateConversation: await ConversationModel.create
CreateConv(j) ==
  /\ pc[j] = "createConv"
  /\ \/ /\ dbtime' = dbtime + 1
        /\ conversations' = Append(conversations,
             ConversationRow(jdata[j].platform, jdata[j].channelId,
                             jdata[j].userId, dbtime + 1))
        /\ conv' = [conv EXCEPT ![j] = dbtime + 1]
        /\ Goto(j, "insertUser")
     \/ /\ Throw(j, StoreError)
        /\ UNCHANGED <<dbtime, conversations, conv>>
  /\ UNCHANGED <<otherVars, fallbackConfigured, queueVars, hist, ai, messages, ghostVars>>

\* addMessage: await MessageModel.create, for the inbound message
InsertUser(j) ==
  /\ pc[j] = "insertUser"
  /\ \/ /\ dbtime' = dbtime + 1
        /\ messages' = Append(messages,
             MessageRow(conv[j], "user", jdata[j].text, jdata[j].messageId, 0,
                        dbtime + 1, Origin(j)))
        /\ Goto(j, "countUser")
     \/ /\ Throw(j, StoreError)
        /\ UNCHANGED <<dbtime, messages>>
  /\ UNCHANGED <<otherVars, fallbackConfigured, queueVars, localVars, conversations, ghostVars>>

\* addMessage: await ConversationModel.incrementMessageCount; addUserMessage
\* returns.
CountUser(j) ==
  /\ pc[j] = "countUser"
  /\ \/ /\ dbtime' = dbtime + 1
        /\ conversations' = incrementMessageCount(conversations, conv[j], dbtime + 1)
        /\ steps' = [steps EXCEPT ![j] = Append(@, "user-message-persisted")]
        /\ Goto(j, "progress30")
     \/ /\ Throw(j, StoreError)
        /\ UNCHANGED <<dbtime, conversations, steps>>
  /\ UNCHANGED <<otherVars, fallbackConfigured, queueVars, localVars, messages,
                 invocations, gaps, outbox>>

\* await ConversationService.getConversationHistory(conversation.id, 4000),
\* then formatMessagesForAI
History(j) ==
  /\ pc[j] = "history"
  /\ \/ /\ hist' = [hist EXCEPT ![j] =
             formatMessagesForAI(findConversationHistory(messages, conv[j], contextTokens))]
        /\ steps' = [steps EXCEPT ![j] = Append(@, "history-fetched")]
        /\ Goto(j, "progress50")
     \/ /\ Throw(j, StoreError)
        /\ UNCHANGED <<hist, steps>>
  /\ UNCHANGED <<otherVars, fallbackConfigured, queueVars, conv, ai, storeVars,
                 invocations, gaps, outbox>>

\* await aiService.processMessage(messageData.text, formattedMessages), up to
\* the end of the primary provider's chat
AiPrimary(j) ==
  /\ pc[j] = "aiPrimary"
  /\ \/ \E resp \in PrimaryResponses :
          /\ ai' = [ai EXCEPT ![j] = PrimaryReturns(jdata[j].text, hist[j], resp)]
          /\ steps' = [steps EXCEPT ![j] = Append(@, "ai-invoked")]
          /\ Goto(j, "progress70")
     \/ \E error \in PrimaryErrors :
          LET c == PrimaryThrows(jdata[j].text, hist[j], error, fallbackConfigured)
          IN /\ ai' = [ai EXCEPT ![j] = c]
             /\ UNCHANGED steps
             /\ IF c.raised = <<>> THEN Goto(j, "aiFallback") ELSE Throw(j, c.raised[1])
  /\ UNCHANGED <<otherVars, fallbackConfigured, queueVars, conv, hist, storeVars,
                 invocations, gaps, outbox>>

\* aiService.processMessage: the fallback provider's chat
AiFallback(j) ==
  /\ pc[j] = "aiFallback"
  /\ \/ \E resp \in FallbackResponses :
          /\ ai' = [ai EXCEPT ![j] = FallbackReturns(ai[j], resp)]
          /\ steps' = [steps EXCEPT ![j] = Append(@, "ai-invoked")]
          /\ Goto(j, "progress70")
     \/ \E error \in FallbackErrors :
          LET c == FallbackThrows(ai[j], error)
          IN /\ ai' = [ai EXCEPT ![j] = c]
             /\ UNCHANGED steps
             /\ Throw(j, c.raised[Len(c.raised)])
  /\ UNCHANGED <<otherVars, fallbackConfigured, queueVars, conv, hist, storeVars,
                 invocations, gaps, outbox>>

\* addAssistantMessage: await MessageModel.create, for the AI response
InsertAsst(j) ==
  /\ pc[j] = "insertAsst"
  /\ \/ /\ dbtime' = dbtime + 1
        /\ messages' = Append(messages,
             MessageRow(conv[j], "assistant", ai[j].returned.content, 0,
                        ai[j].returned.totalTokens, dbtime + 1, Origin(j)))
        /\ Goto(j, "countAsst")
     \/ /\ Throw(j, StoreError)
        /\ UNCHANGED <<dbtime, messages>>
  /\ UNCHANGED <<otherVars, fallbackConfigured, queueVars, localVars, conversations, ghostVars>>

\* addAssistantMessage: await ConversationModel.incrementMessageCount
CountAsst(j) ==
  /\ pc[j] = "countAsst"
  /\ \/ /\ dbtime' = dbtime + 1
        /\ conversations' = incrementMessageCount(conversations, conv[j], dbtime + 1)
        /\ steps' = [steps EXCEPT ![j] = Append(@, "response-persisted")]
        /\ Goto(j, "progress90")
     \/ /\ Throw(j, StoreError)
        /\ UNCHANGED <<dbtime, conversations, steps>>
  /\ UNCHANGED <<otherVars, fallbackConfigured, queueVars, localVars, messages,
                 invocations, gaps, outbox>>

\* How a call of sendTelegramMessage or sendSlackMessage can fare: the
\* platform's API accepted the text, the bot token is not configured (lines
\* 49-52, 78-81), the API answered with a non-2xx status (lines 67-70, 96-99),
\* or fetch rejected (lines 71-73, 100-102).
Transports == {"sent", "no-token", "rejected", "unreachable"}

\* What can become of a text handed to sendPlatformResponse: for a platform
\* it does not know nothing is sent.
TransportsOf(platform) ==
  IF platform \in {"telegram", "slack"} THEN Transports ELSE {"none"}

\* A dispatcher that lets a failure of the transport escape.
DispatcherThrowsOnFailure(platform, outcome) ==
  platform \notin {"telegram", "slack"} \/ outcome # "sent"

\* sendPlatformResponse rejects exactly for a platform it does not know;
\* sendTelegramMessage and sendSlackMessage catch every transport failure.
DispatcherThrows(platform, outcome) == platform \notin {"telegram", "slack"}

\* One text handed to sendPlatformResponse by the current attempt of job j.
Handed(j, kind, text) ==
  [attempt |-> invocations[j], kind |-> kind, platform |-> jdata[j].platform,
   channelId |-> jdata[j].channelId, text |-> text]

\* await sendPlatformResponse(platform, messageData.channelId, aiResponse.content)
Send(j) ==
  /\ pc[j] = "send"
  /\ outbox' = [outbox EXCEPT ![j] = Append(@, Handed(j, "answer", ai[j].returned.content))]
  /\ \E outcome \in TransportsOf(jdata[j].platform) :
       /\ transport' = [transport EXCEPT ![j] = outcome]
       /\ IF DispatcherThrows(jdata[j].platform, outcome)
          THEN /\ Throw(j, UnknownPlatformError(jdata[j].platform))
               /\ UNCHANGED steps
          ELSE /\ Goto(j, "progress100")
               /\ steps' = [steps EXCEPT ![j] = Append(@, "delivered")]
  /\ UNCHANGED <<hookVars, svcVars, fallbackConfigured, queueVars, localVars, storeVars,
                 invocations, gaps>>

\* A catch block whose rethrow picks up the error of the failed apology.
RethrownLastError(caught, apologyFailed, sendError) ==
  IF apologyFailed THEN sendError ELSE caught

\* The error the handler rethrows after the apology, given the error caught
\* and, when sending the apology failed, the error of that (line 189: throw
\* error).
Rethrown(caught, apologyFailed, sendError) == caught

\* The catch block: the apology is handed to the dispatcher, a failure of
\* that is logged, and the caught error is rethrown.
Apology(j) ==
  /\ pc[j] = "apology"
  /\ outbox' = [outbox EXCEPT ![j] = Append(@, Handed(j, "apology", ApologyText))]
  /\ \E outcome \in TransportsOf(jdata[j].platform) :
       /\ transport' = [transport EXCEPT ![j] = outcome]
       /\ err' = [err EXCEPT ![j] =
            Rethrown(err[j], DispatcherThrows(jdata[j].platform, outcome),
                     UnknownPlatformError(jdata[j].platform))]
  /\ pc' = [pc EXCEPT ![j] = "thrown"]
  /\ UNCHANGED <<hookVars, svcVars, fallbackConfigured, queueVars, original, early,
                 localVars, storeVars, invocations, steps, gaps>>

\* One step of the handler invocation that runs job j.
HandlerStep(j) ==
  \/ JobProgress(j)
  \/ FindConv(j)
  \/ CreateConv(j)
  \/ InsertUser(j)
  \/ CountUser(j)
  \/ History(j)
  \/ AiPrimary(j)
  \/ AiFallback(j)
  \/ InsertAsst(j)
  \/ CountAsst(j)
  \/ Send(j)
  \/ Apology(j)

Next ==
  \/ \E j \in JobIds, platform \in Platforms, text \in Texts : Enqueue(j, platform, text)
  \/ \E j \in JobIds : Start(j)
  \/ \E j \in JobIds : HandlerStep(j)
  \/ \E j \in JobIds : Completed(j)
  \/ \E j \in JobIds : Failed(j)
  \/ \E j \in JobIds : Promote(j)
  \/ Tick

Spec == Init /\ [][Next]_vars

\* Every awaited call settles, a free worker takes a waiting job, Bull's
\* timers fire and time passes.  Nothing obliges a webhook to arrive.
Fairness ==
  /\ WF_vars(Tick)
  /\ \A j \in JobIds :
       /\ WF_vars(Start(j))
       /\ WF_vars(HandlerStep(j))
       /\ WF_vars(Completed(j))
       /\ WF_vars(Failed(j))
       /\ WF_vars(Promote(j))

FairSpec == Spec /\ Fairness

\* ------------------------------------------------------ ConversationService
\* The calls of ConversationService made by concurrent clients, one step per
\* awaited query.

\* Client w has no call in progress.
Resting(w) == call[w].step \in {"idle", "done", "failed"}

ConversationIds == {conversations[i].id : i \in 1..Len(conversations)}

\* The conversation row with the given id.
ConversationById(id) ==
  conversations[CHOOSE i \in 1..Len(conversations) : conversations[i].id = id]

\* Client w calls an operation of ConversationService.
Begin(w, c) ==
  /\ Resting(w)
  /\ started < MaxOps
  /\ started' = started + 1
  /\ call' = [call EXCEPT ![w] = c]
  /\ raced' = (raced \/ \E v \in Clients \ {w} : ~Resting(v))
  /\ UNCHANGED <<hookVars, transport, fallbackConfigured, queueVars, ctlVars, localVars,
                 storeVars, ghostVars, torn>>

\* The calls a client can make.
Calls ==
  {[NoOp EXCEPT !.op = "getOrCreateConversation", !.step = "find", !.key = k] :
     k \in Keys}
  \cup {[NoOp EXCEPT !.op = "addMessage", !.step = "create", !.conv = id, !.draft = d] :
           id \in ConversationIds, d \in Drafts}
  \cup {[NoOp EXCEPT !.op = "getConversationHistory", !.step = "query", !.conv = id, !.n = n] :
           id \in ConversationIds, n \in Budgets}
  \cup {[NoOp EXCEPT !.op = "cleanupOldMessages", !.step = "select", !.conv = id, !.n = n] :
           id \in ConversationIds, n \in KeepCounts}
  \cup {[NoOp EXCEPT !.op = "deactivateConversation", !.step = "update", !.conv = id] :
           id \in ConversationIds}

\* The awaited query of client w rejects: the call throws.
Rejects(w) ==
  /\ call' = [call EXCEPT ![w].step = "failed"]
  /\ torn' = (torn \/ (call[w].op = "addMessage" /\ call[w].step = "increment"))
  /\ UNCHANGED <<storeVars, started, raced>>

\* The frame of a step of a client's call.
ServiceFrame ==
  UNCHANGED <<hookVars, transport, fallbackConfigured, queueVars, ctlVars, localVars,
              ghostVars>>

\* getOrCreateConversation: await ConversationModel.findByPlatformAndChannel
GetOrCreateFind(w) ==
  /\ call[w].op = "getOrCreateConversation" /\ call[w].step = "find"
  /\ \/ LET c == findByPlatformAndChannel(call[w].key.platform,
                                          call[w].key.channel_id, call[w].key.user_id)
        IN /\ call' = [call EXCEPT ![w].step = IF c = 0 THEN "create" ELSE "done",
                                   ![w].out = c]
           /\ UNCHANGED <<storeVars, started, raced, torn>>
     \/ Rejects(w)
  /\ ServiceFrame

\* getOrCreateConversation: await ConversationModel.create
GetOrCreateCreate(w) ==
  /\ call[w].op = "getOrCreateConversation" /\ call[w].step = "create"
  /\ \/ /\ dbtime' = dbtime + 1
        /\ conversations' = Append(conversations,
             ConversationRow(call[w].key.platform, call[w].key.channel_id,
                             call[w].key.user_id, dbtime + 1))
        /\ call' = [call EXCEPT ![w].step = "done", ![w].out = dbtime + 1]
        /\ UNCHANGED <<messages, started, raced, torn>>
     \/ Rejects(w)
  /\ ServiceFrame

\* The latest created_at among the rows of a conversation, 0 without rows.
NewestAt(msgs, conversation_id) ==
  LET rows == MessagesOf(msgs, conversation_id)
  IN IF rows = <<>> THEN 0
     ELSE CHOOSE t \in {rows[i].created_at : i \in 1..Len(rows)} :
            \A i \in 1..Len(rows) : rows[i].created_at <= t

\* addMessage: await MessageModel.create
AddMessageCreate(w) ==
  /\ call[w].op = "addMessage" /\ call[w].step = "create"
  /\ \/ /\ dbtime' = dbtime + 1
        /\ messages' = Append(messages,
             MessageRow(call[w].conv, call[w].draft.role, call[w].draft.content,
                        call[w].draft.platform_message_id,
                        call[w].draft.token_count, dbtime + 1, call[w].origin))
        /\ call' = [call EXCEPT ![w].step = "increment", ![w].out = dbtime + 1]
        /\ UNCHANGED <<conversations, started, raced, torn>>
     \/ Rejects(w)
  /\ ServiceFrame

\* addMessage: await ConversationModel.incrementMessageCount, then return
AddMessageIncrement(w) ==
  /\ call[w].op = "addMessage" /\ call[w].step = "increment"
  /\ \/ /\ dbtime' = dbtime + 1
        /\ conversations' = incrementMessageCount(conversations, call[w].conv, dbtime + 1)
        /\ call' = [call EXCEPT ![w].step = "done",
                                ![w].lastAt = dbtime + 1,
                                ![w].newestAt = NewestAt(messages, call[w].conv)]
        /\ UNCHANGED <<messages, started, raced, torn>>
     \/ Rejects(w)
  /\ ServiceFrame

\* getConversationHistory: await MessageModel.findConversationHistory
GetHistory(w) ==
  /\ call[w].op = "getConversationHistory" /\ call[w].step = "query"
  /\ \/ /\ call' = [call EXCEPT
             ![w].step = "done",
             ![w].result = findConversationHistory(messages, call[w].conv, call[w].n),
             ![w].before = MessagesOf(messages, call[w].conv)]
        /\ UNCHANGED <<storeVars, started, raced, torn>>
     \/ Rejects(w)
  /\ ServiceFrame

\* cleanupOldMessages: deleteOldMessages awaits the select of the ids to
\* keep and returns 0 when there are none
CleanupSelect(w) ==
  /\ call[w].op = "cleanupOldMessages" /\ call[w].step = "select"
  /\ \/ LET keepIds == newestIds(messages, call[w].conv, call[w].n)
        IN /\ call' = [call EXCEPT
                ![w].step = IF keepIds = {} THEN "done" ELSE "delete",
                ![w].ids = keepIds,
                ![w].before = MessagesOf(messages, call[w].conv),
                ![w].result = MessagesOf(messages, call[w].conv)]
           /\ UNCHANGED <<storeVars, started, raced, torn>>
     \/ Rejects(w)
  /\ ServiceFrame

\* cleanupOldMessages: deleteOldMessages awaits the delete and returns the
\* number of rows deleted
CleanupDelete(w) ==
  /\ call[w].op = "cleanupOldMessages" /\ call[w].step = "delete"
  /\ \/ LET left == deleteExcept(messages, call[w].conv, call[w].ids)
        IN /\ messages' = left
           /\ call' = [call EXCEPT ![w].step = "done",
                                   ![w].out = Len(messages) - Len(left),
                                   ![w].result = MessagesOf(left, call[w].conv)]
           /\ UNCHANGED <<conversations, dbtime, started, raced, torn>>
     \/ Rejects(w)
  /\ ServiceFrame

\* deactivateConversation: await ConversationModel.deactivate
Deactivate(w) ==
  /\ call[w].op = "deactivateConversation" /\ call[w].step = "update"
  /\ \/ /\ conversations' = deactivate(conversations, call[w].conv)
        /\ call' = [call EXCEPT ![w].step = "done"]
        /\ UNCHANGED <<messages, dbtime, started, raced, torn>>
     \/ Rejects(w)
  /\ ServiceFrame

\* One step of the call client w has in progress.
ServiceStep(w) ==
  \/ GetOrCreateFind(w)
  \/ GetOrCreateCreate(w)
  \/ AddMessageCreate(w)
  \/ AddMessageIncrement(w)
  \/ GetHistory(w)
  \/ CleanupSelect(w)
  \/ CleanupDelete(w)
  \/ Deactivate(w)

StoreNext ==
  \/ \E w \in Clients : \E c \in Calls : Begin(w, c)
  \/ \E w \in Clients : ServiceStep(w)

\* The clients of ConversationService on a store that starts empty; they make
\* no use of the AI providers.
StoreInit == Init /\ ~fallbackConfigured

StoreSpec == StoreInit /\ [][StoreNext]_vars

\* ----------------------------------------------------------------- workers
\* Two workers of the queue run processMessage at the same time, each for a
\* message of its own that the same user sent to the same chat.  A worker is
\* a client of ConversationService that makes the calls of the handler in
\* the handler's order; the awaits of the handler that do not touch the
\* store (job.progress, the dispatch) lie between two calls.

\* The job worker w handles.
WorkerJob(w) ==
  [platform |-> "telegram", text |-> "hello", channelId |-> "42", userId |-> "7",
   messageId |-> 4 + w]

\* A handler that asks for the history without persisting the user message.
NextCallWithoutUserMessage(c, o, data, response) ==
  IF c.op = "none"
  THEN [NoOp EXCEPT !.op = "getOrCreateConversation", !.step = "find", !.origin = o,
                    !.key = [platform |-> data.platform, channel_id |-> data.channelId,
                             user_id |-> data.userId]]
  ELSE IF c.op = "getOrCreateConversation"
  THEN [NoOp EXCEPT !.op = "getConversationHistory", !.step = "query", !.origin = o,
                    !.conv = c.out, !.n = contextTokens]
  ELSE IF c.op = "getConversationHistory"
  THEN [NoOp EXCEPT !.op = "addMessage", !.step = "create", !.origin = o,
                    !.conv = c.conv,
                    !.draft = [role |-> "assistant", content |-> response.content,
                               token_count |-> response.totalTokens,
                               platform_message_id |-> 0]]
  ELSE [NoOp EXCEPT !.op = "processMessage", !.step = "done", !.origin = o]

\* The call of ConversationService processMessage makes once call c has
\* returned, for attempt o of the job with the given data: addUserMessage
\* (getOrCreateConversation, then addMessage), getConversationHistory, and,
\* with the response of aiService.processMessage, addAssistantMessage; after
\* that the handler returns.
NextCall(c, o, data, response) ==
  IF c.op = "none"
  THEN [NoOp EXCEPT !.op = "getOrCreateConversation", !.step = "find", !.origin = o,
                    !.key = [platform |-> data.platform, channel_id |-> data.channelId,
                             user_id |-> data.userId]]
  ELSE IF c.op = "getOrCreateConversation"
  THEN [NoOp EXCEPT !.op = "addMessage", !.step = "create", !.origin = o,
                    !.conv = c.out,
                    !.draft = [role |-> "user", content |-> data.text,
                               token_count |-> 0,
                               platform_message_id |-> data.messageId]]
  ELSE IF c.op = "addMessage" /\ c.draft.role = "user"
  THEN [NoOp EXCEPT !.op = "getConversationHistory", !.step = "query", !.origin = o,
                    !.conv = c.conv, !.n = contextTokens]
  ELSE IF c.op = "getConversationHistory"
  THEN [NoOp EXCEPT !.op = "addMessage", !.step = "create", !.origin = o,
                    !.conv = c.conv,
                    !.draft = [role |-> "assistant", content |-> response.content,
                               token_count |-> response.totalTokens,
                               platform_message_id |-> 0]]
  ELSE [NoOp EXCEPT !.op = "processMessage", !.step = "done", !.origin = o]

\* The attempt of worker w has ended: the handler returned or threw.
Ended(w) == call[w].op = "processMessage"

\* The handler of worker w goes on to its next call of ConversationService;
\* before addAssistantMessage it awaits aiService.processMessage, which
\* resolves with a response or rejects, and a rejection ends the attempt.
WorkerCalls(w) ==
  /\ call[w].step \in {"idle", "done"} /\ ~Ended(w)
  /\ LET o == IF call[w].op = "none" THEN [job |-> w, attempt |-> 1]
              ELSE call[w].origin
     IN \/ \E r \in PrimaryResponses :
             call' = [call EXCEPT ![w] = NextCall(call[w], o, WorkerJob(w), r)]
        \/ /\ call[w].op = "getConversationHistory"
           /\ call' = [call EXCEPT ![w] =
                         [NoOp EXCEPT !.op = "processMessage", !.step = "failed",
                                      !.origin = o]]
  /\ UNCHANGED <<storeVars, started, raced, torn>>
  /\ ServiceFrame

\* A call of worker w was rejected and the handler threw: the attempt ends.
WorkerThrows(w) ==
  /\ call[w].step = "failed" /\ ~Ended(w)
  /\ call' = [call EXCEPT ![w] =
                [NoOp EXCEPT !.op = "processMessage", !.step = "failed",
                             !.origin = call[w].origin]]
  /\ UNCHANGED <<storeVars, started, raced, torn>>
  /\ ServiceFrame

\* The number of times the job of worker w was run again.
RECURSIVE Retries(_)
Retries(ws) ==
  IF ws = {} THEN 0
  ELSE LET w == CHOOSE v \in ws : TRUE
       IN (IF call[w].origin.attempt > 1 THEN call[w].origin.attempt - 1 ELSE 0)
            + Retries(ws \ {w})

\* The queue runs the failed job of worker w again, up to `attempts` times;
\* the retries that are followed are bounded by MaxRetries.
WorkerRetries(w) ==
  /\ Ended(w) /\ call[w].step = "failed"
  /\ call[w].origin.attempt < attempts
  /\ Retries(Clients) < MaxRetries
  /\ \E r \in PrimaryResponses :
       call' = [call EXCEPT ![w] =
                  NextCall(NoOp, [job |-> w, attempt |-> call[w].origin.attempt + 1],
                           WorkerJob(w), r)]
  /\ UNCHANGED <<storeVars, started, raced, torn>>
  /\ ServiceFrame

WorkersNext ==
  \E w \in Clients :
    \/ WorkerCalls(w)
    \/ WorkerThrows(w)
    \/ WorkerRetries(w)
    \/ GetOrCreateFind(w)
    \/ GetOrCreateCreate(w)
    \/ AddMessageCreate(w)
    \/ AddMessageIncrement(w)
    \/ GetHistory(w)

WorkersSpec == StoreInit /\ [][WorkersNext]_vars

\* ---------------------------------------------------------------- webhooks
\* The webhook router and the signature verifiers.  Strings are modelled by
\* their structure: a signature header by the digest whose hexadecimal digits
\* it carries and how it deviates from them, a timestamp header by its
\* leading digits and the rest.  HMAC-SHA256 is collision-free: two digests
\* are equal exactly when key and signed text are.

\* The number of bytes of a SHA-256 digest.
DigestBytes == 32

\* The replay window of verifySlackSignature, in seconds.
replayWindow == 300

\* crypto.createHmac('sha256', key).update(text): the text is the raw body
\* (Telegram) or `v0:${timestamp}:${body}` (Slack).
Hmac(key, ts, raw) == [key |-> key, ts |-> ts, raw |-> raw]

\* .digest('hex'): the 64 lower-case hexadecimal digits of the digest.
HexDigest(d) ==
  [present |-> TRUE, prefix |-> "", digest |-> d, casing |-> "lower",
   cut |-> FALSE, suffix |-> ""]

\* `v0=${hash}`
WithV0(h) == [h EXCEPT !.prefix = "v0="]

\* The number of characters of a signature header.
Length(h) ==
  IF ~h.present THEN 0
  ELSE Len(h.prefix) + (IF h.cut THEN DigestBytes ELSE 2 * DigestBytes) + Len(h.suffix)

\* Buffer.from(s, 'hex'): the bytes spelled by the hexadecimal digits s
\* starts with, in either case, up to the first character that is none.
FromHex(h) ==
  IF ~h.present \/ h.prefix # ""
  THEN [bytes |-> 0, content |-> NoSignature]
  ELSE [bytes |-> IF h.cut THEN DigestBytes \div 2 ELSE DigestBytes,
        content |-> [h EXCEPT !.casing = "lower", !.suffix = ""]]

\* Buffer.from(s): the bytes of the characters of s.
FromUtf8(h) == [bytes |-> Length(h), content |-> h]

\* A verifier returned v.
Returned(v) ==
  [called |-> TRUE, raised |-> FALSE, value |-> v, comparison |-> NoComparison]

\* crypto.timingSafeEqual(a, b): throws a RangeError when the byte lengths
\* differ, and otherwise looks at every byte whatever the bytes are.
timingSafeEqual(a, b) ==
  IF a.bytes # b.bytes
  THEN [called |-> TRUE, raised |-> TRUE, value |-> FALSE,
        comparison |-> [made |-> TRUE, received |-> a.bytes, expected |-> b.bytes,
                        examined |-> 0]]
  ELSE [called |-> TRUE, raised |-> FALSE, value |-> (a.content = b.content),
        comparison |-> [made |-> TRUE, received |-> a.bytes, expected |-> b.bytes,
                        examined |-> a.bytes]]

\* verifyTelegramBotTokenSignature(body, receivedHash) under process.env e
verifyTelegramBotTokenSignature(e, body, receivedHash) ==
  IF ~e.botToken THEN Returned(FALSE)
  ELSE IF ~receivedHash.present THEN Returned(FALSE)
  ELSE LET expectedHash == HexDigest(Hmac(BotToken, NoTimestamp, body))
           r == timingSafeEqual(FromHex(receivedHash), FromHex(expectedHash))
       IN IF r.raised THEN [Returned(FALSE) EXCEPT !.comparison = r.comparison] ELSE r

\* validateTelegramUpdate(body): typeof update.update_id === 'number'
validateTelegramUpdate(body) == body.update_id

\* parseInt(timestamp): the number the leading digits spell, NaN without any.
parseInt(t) ==
  [nan |-> t.digits < 0, value |-> IF t.digits < 0 THEN 0 ELSE t.digits]

Abs(x) == IF x < 0 THEN -x ELSE x

\* Math.abs(currentTime - time) > 300, which is false for NaN.
TooOld(currentTime, time) ==
  ~time.nan /\ Abs(currentTime - time.value) > replayWindow

\* verifySlackSignature(body, timestamp, signature) under process.env e, with
\* Math.floor(Date.now() / 1000) = currentTime
verifySlackSignature(e, currentTime, body, timestamp, signature) ==
  IF ~e.signingSecret THEN Returned(FALSE)
  ELSE IF TooOld(currentTime, parseInt(timestamp)) THEN Returned(FALSE)
  ELSE LET hash == HexDigest(Hmac(SigningSecret, timestamp, body))
           expectedSignature == WithV0(hash)
       IN timingSafeEqual(FromUtf8(signature), FromUtf8(expectedSignature))

\* An overall health that needs both providers.
isHealthyBoth(primaryHealthy, hasFallback, fallbackProbe) ==
  [primary |-> primaryHealthy,
   fallback |-> IF ~hasFallback THEN "undefined"
                ELSE IF fallbackProbe THEN "true" ELSE "false",
   overall |-> primaryHealthy /\ hasFallback /\ fallbackProbe]

\* AIService.isHealthy, given what the probes of the providers return; the
\* fallback is probed only when there is one.
isHealthy(primaryHealthy, hasFallback, fallbackProbe) ==
  LET fallbackHealthy == IF ~hasFallback THEN "undefined"
                         ELSE IF fallbackProbe THEN "true" ELSE "false"
  IN [primary |-> primaryHealthy,
      fallback |-> fallbackHealthy,
      overall |-> primaryHealthy
                    \/ (IF fallbackHealthy = "undefined" THEN FALSE
                        ELSE fallbackHealthy = "true")]

\* res.status(status).json(...): the request is answered.
Respond(h, status, reply) ==
  [h EXCEPT !.step = "responded", !.status = status, !.reply = reply]

\* The job data the Telegram route hands to messageQueue.add.
TelegramJob(b) ==
  [platform |-> "telegram", text |-> b.text, channelId |-> b.channel,
   userId |-> IF b.user = "" THEN "unknown" ELSE b.user, messageId |-> b.id]

\* The job data the Slack route hands to messageQueue.add.
SlackJob(b) ==
  [platform |-> "slack", text |-> b.text, channelId |-> b.channel,
   userId |-> b.user, messageId |-> b.id]

\* A comparison that is content with any secret token.
secretTokenPresent(secretToken) == secretToken # <<>>

\* secretToken === process.env.TELEGRAM_WEBHOOK_SECRET; an absent header is
\* undefined and differs from every secret.
secretTokenMatches(secretToken) == secretToken = WebhookSecret

\* The first position at which two strings of the same length differ, their
\* length when they are equal.
FirstDifference(a, b) ==
  LET d == {i \in 1..Len(a) : a[i] # b[i]}
  IN IF d = {} THEN Len(a) ELSE CHOOSE i \in d : \A k \in d : i <= k

\* What the === of two strings looks at: strings of different lengths differ
\* without a look at their characters, strings of the same length are
\* compared character by character up to the first difference.
StrictEquality(received, expected) ==
  [made |-> TRUE, received |-> Len(received), expected |-> Len(expected),
   examined |-> IF Len(received) # Len(expected) THEN 0
                ELSE FirstDifference(received, expected)]

\* router.post('/telegram'), up to its await of messageQueue.add or, when it
\* adds nothing, to its response.
telegram(e, req) ==
  LET h0 == [NoHook EXCEPT !.route = "telegram", !.req = req]
      v == verifyTelegramBotTokenSignature(e, req.rawBody.raw, req.signature)
      h1 == IF e.webhookSecret
            THEN [h0 EXCEPT !.tokenComparison =
                              StrictEquality(req.secretToken, WebhookSecret)]
            ELSE [h0 EXCEPT !.verified = v]
      unauthorized == IF e.webhookSecret THEN ~secretTokenMatches(req.secretToken)
                      ELSE ~v.value
  IN IF req.rawBody.raw = "" THEN Respond(h0, 400, "Invalid request")
     ELSE IF unauthorized THEN Respond(h1, 401, "Unauthorized")
     ELSE IF ~validateTelegramUpdate(req.rawBody) THEN Respond(h1, 401, "Unauthorized")
     ELSE IF ~req.rawBody.valid THEN Respond(h1, 400, "Invalid webhook data")
     ELSE IF req.rawBody.text # "" /\ req.rawBody.channel # ""
          THEN [h1 EXCEPT !.step = "adding", !.job = TelegramJob(req.rawBody)]
          ELSE Respond(h1, 200, "ok")

\* SlackEventSchema.safeParse(req.body).data: a z.object keeps the keys it
\* declares (type, channel, user, text, ts of the event) and strips the
\* others, bot_id among them.
SlackEventSchema(body) == [body EXCEPT !.bot_id = ""]

\* router.post('/slack'), up to its await of messageQueue.add or, when it
\* adds nothing, to its response.  An exception of the verifier is caught by
\* the route's catch block.
slack(e, currentTime, req) ==
  LET h0 == [NoHook EXCEPT !.route = "slack", !.req = req, !.now = currentTime]
      v == verifySlackSignature(e, currentTime, req.rawBody.raw, req.timestamp,
                                req.signature)
      h1 == [h0 EXCEPT !.verified = v]
      b == SlackEventSchema(req.rawBody)
  IN IF b.raw = "" THEN Respond(h0, 400, "Invalid request")
     ELSE IF req.timestamp = NoTimestamp \/ ~req.signature.present
          THEN Respond(h0, 401, "Unauthorized")
     ELSE IF v.raised THEN Respond(h1, 500, "Internal server error")
     ELSE IF ~v.value THEN Respond(h1, 401, "Unauthorized")
     ELSE IF ~b.valid THEN Respond(h1, 400, "Invalid webhook data")
     ELSE IF b.type = "url_verification" THEN Respond(h1, 200, "challenge")
     ELSE IF b.type = "event_callback" /\ b.event = "message"
             /\ b.user # "" /\ b.text # ""
          THEN [h1 EXCEPT !.step = "adding", !.job = SlackJob(b)]
          ELSE Respond(h1, 200, "ok")

\* The rest of either route once messageQueue.add has settled: a rejection is
\* logged, and the webhook is acknowledged.
acknowledge(h, resolved) ==
  Respond([h EXCEPT !.added = IF resolved THEN <<h.job>> ELSE <<>>], 200, "ok")

\* ---- the requests
\* Math.floor(Date.now() / 1000) when a Slack request is verified.
Times == {1000}

\* The age of a timestamp header, in seconds (negative: in the past).
Offsets == {-301, -300, 0, 300, 301}

\* The timestamp headers: numbers around the clock reading, a string that is
\* no number, and none.
Timestamps(currentTime) ==
  {[digits |-> currentTime + o, rest |-> ""] : o \in Offsets}
    \cup {[digits |-> -1, rest |-> "x"], NoTimestamp}

\* The timestamps a signer puts into the base string.
SignedTimestamps(currentTime) ==
  {[digits |-> currentTime, rest |-> ""], [digits |-> currentTime - 300, rest |-> ""],
   [digits |-> currentTime - 301, rest |-> ""], [digits |-> -1, rest |-> "x"]}

\* Telegram updates: a text message, an update without a message, a JSON
\* without update_id, an update the schema rejects, and an empty body.
TextUpdate ==
  [NoBody EXCEPT !.raw = "{update_id:1,message:{message_id:5,text:hello,chat:42,from:7}}",
                 !.update_id = TRUE, !.valid = TRUE, !.text = "hello",
                 !.channel = "42", !.user = "7", !.id = 5]
OtherUpdate ==
  [NoBody EXCEPT !.raw = "{update_id:2}", !.update_id = TRUE, !.valid = TRUE]
TelegramBodies ==
  {TextUpdate, OtherUpdate,
   [NoBody EXCEPT !.raw = "{ok:true}"],
   [NoBody EXCEPT !.raw = "{update_id:3,message:7}", !.update_id = TRUE],
   NoBody}

\* Slack events: the URL verification challenge, a user's message, the
\* message event of a reply the bot posted with chat.postMessage (it carries
\* the bot's user id and its bot_id), a message without user, a JSON the
\* schema rejects, and an empty body.
MessageEvent ==
  [NoBody EXCEPT !.raw = "{type:event_callback,event:{type:message,user:7,text:hello,channel:42,ts:6}}",
                 !.valid = TRUE, !.type = "event_callback", !.event = "message",
                 !.text = "hello", !.channel = "42", !.user = "7", !.id = 6]
Challenge ==
  [NoBody EXCEPT !.raw = "{type:url_verification,challenge:c}", !.valid = TRUE,
                 !.type = "url_verification", !.challenge = "c"]
BotReply ==
  [NoBody EXCEPT !.raw = "{type:event_callback,event:{type:message,user:B,bot_id:B1,text:fallback answer,channel:42,ts:9}}",
                 !.valid = TRUE, !.type = "event_callback", !.event = "message",
                 !.text = "fallback answer", !.channel = "42", !.user = "B",
                 !.bot_id = "B1", !.id = 9]
SlackBodies ==
  {MessageEvent, Challenge, BotReply,
   [NoBody EXCEPT !.raw = "{type:event_callback,event:{type:message,text:hi,channel:42,ts:8}}",
                  !.valid = TRUE, !.type = "event_callback", !.event = "message",
                  !.text = "hi", !.channel = "42", !.id = 8],
   [NoBody EXCEPT !.raw = "{type:7}"],
   NoBody}

\* The ways a header spells a digest after the given prefix, and the exact
\* digits after another prefix.
Forms(prefix, other) ==
  [prefix : {prefix}, casing : {"lower", "upper"}, cut : BOOLEAN, suffix : {"", "zz"}]
    \cup {[prefix |-> other, casing |-> "lower", cut |-> FALSE, suffix |-> ""]}

Shaped(d, f) ==
  [present |-> TRUE, prefix |-> f.prefix, digest |-> d, casing |-> f.casing,
   cut |-> f.cut, suffix |-> f.suffix]

\* The secret-token headers: none, the secret, a token of another length,
\* and tokens of the secret's length that differ from it in the first or in
\* the last character only.
SecretTokens ==
  {<<>>, WebhookSecret, <<"w", "r", "o", "n", "g">>,
   [WebhookSecret EXCEPT ![1] = "x"],
   [WebhookSecret EXCEPT ![Len(WebhookSecret)] = "x"]}

\* The requests that reach router.post('/telegram'): the signature, when
\* there is one, was made with the bot token or another key, over one of two
\* bodies.
TelegramRequests ==
  {[rawBody |-> b, secretToken |-> t, signature |-> s, timestamp |-> NoTimestamp] :
     b \in TelegramBodies, t \in SecretTokens,
     s \in {NoSignature}
             \cup {Shaped(Hmac(k, NoTimestamp, r), f) :
                     k \in {BotToken, ForeignKey},
                     r \in {TextUpdate.raw, OtherUpdate.raw},
                     f \in Forms("", "v0=")}}

\* The requests that reach router.post('/slack').
SlackRequests(currentTime) ==
  {[rawBody |-> b, secretToken |-> <<>>, signature |-> s, timestamp |-> t] :
     b \in SlackBodies, t \in Timestamps(currentTime),
     s \in {NoSignature}
             \cup {Shaped(Hmac(k, st, r), f) :
                     k \in {SigningSecret, ForeignKey},
                     st \in SignedTimestamps(currentTime),
                     r \in {MessageEvent.raw, Challenge.raw, BotReply.raw},
                     f \in Forms("v0=", "")}}

\* ---- the router
HookFrame ==
  UNCHANGED <<fallbackConfigured, queueVars, ctlVars, localVars, storeVars,
              ghostVars, svcVars, transport, env, capture>>

\* POST /webhook/telegram
TelegramWebhook(req) ==
  /\ hook.step = "none"
  /\ hook' = telegram(env, req)
  /\ HookFrame

\* POST /webhook/slack
SlackWebhook(currentTime, req) ==
  /\ hook.step = "none"
  /\ hook' = slack(env, currentTime, req)
  /\ HookFrame

\* await messageQueue.add('process-message', ...) resolves or rejects
QueueAdd ==
  /\ hook.step = "adding"
  /\ \E resolved \in BOOLEAN : hook' = acknowledge(hook, resolved)
  /\ HookFrame

\* GET /webhook/health
WebhookHealth(primaryHealthy, fallbackProbe) ==
  /\ hook.step = "none"
  /\ hook' = Respond([NoHook EXCEPT !.route = "health",
                        !.health = isHealthy(primaryHealthy, fallbackConfigured,
                                             fallbackProbe)],
                     200, "ok")
  /\ HookFrame

\* The response has been sent and the request is over.
Close ==
  /\ hook.step = "responded"
  /\ hook' = NoHook
  /\ HookFrame

HookNext ==
  \/ \E req \in TelegramRequests : TelegramWebhook(req)
  \/ \E t \in Times : \E req \in SlackRequests(t) : SlackWebhook(t, req)
  \/ QueueAdd
  \/ \E p \in BOOLEAN, f \in BOOLEAN : WebhookHealth(p, f)
  \/ Close

\* The webhook router under any configuration of the credentials.
HookInit == Constructed /\ env \in Envs

HookSpec == HookInit /\ [][HookNext]_vars

\* ---------------------------------------------------------------- raw body
\* The raw-body middleware in front of the webhook routes, for one request
\* at a time.  The body stream of the request emits 'data' for each chunk
\* and then 'end', unless the client goes away first ('aborted', which the
\* runtime follows with 'error' or not, depending on its version), the stream
\* fails ('error'), or the middleware destroys the request.  req.destroy()
\* closes the connection, so what is written to the response afterwards
\* reaches nobody; so does the client's going away and a failure of the
\* stream.

CaptureFrame ==
  UNCHANGED <<fallbackConfigured, queueVars, ctlVars, localVars, storeVars,
              ghostVars, svcVars, transport, env, hook>>

\* The sizes of a chunk in bytes: small, as large as the limit, and one more.
ChunkSizes == {1, limit, limit + 1}

\* The bodies: the chunks they arrive in and whether the whole text is a
\* JSON text, is no JSON text, or is white space only.
Bodies ==
  {[chunks |-> <<>>, text |-> "blank"]}
    \cup {[chunks |-> c, text |-> t] :
            c \in UNION {[1..n -> ChunkSizes] : n \in 1..MaxChunks},
            t \in {"json", "not json", "blank"}}

\* The requests to a /webhook route that reach the middleware, req.body
\* being undefined: their content type, their body, and whether the runtime
\* emits 'error' on a request its client has aborted.
CaptureRequests ==
  [json : BOOLEAN, body : Bodies, errorAfterAborted : BOOLEAN]

\* The connection of the request is open: what is written to the response
\* can reach the client.
Connected(c) == c.stream \in {"flowing", "ended"}

\* res.status(status).json(...): a second response throws
\* ERR_HTTP_HEADERS_SENT.
Json(c, status, reply) ==
  IF c.responses # <<>> THEN [c EXCEPT !.threw = TRUE]
  ELSE [c EXCEPT !.responses =
                   <<[status |-> status, reply |-> reply, delivered |-> Connected(c)]>>]

\* cleanup(): clearTimeout, which a timer that has fired ignores.
Cleanup(c) == [c EXCEPT !.timer = IF @ = "armed" THEN "cleared" ELSE @]

\* The middleware is called with the request (lines 31-74).
Arrives(r) ==
  /\ capture.stream = "none"
  /\ capture' =
       IF ~r.json
       THEN Json([NoCapture EXCEPT !.req = r, !.stream = "ended"], 400,
                 "Content-Type must be application/json for webhooks")
       ELSE [NoCapture EXCEPT !.req = r, !.stream = "flowing", !.timer = "armed"]
  /\ CaptureFrame

\* req.on('data') for the next chunk of the body (lines 76-91).
Data ==
  /\ capture.stream = "flowing"
  /\ capture.received < Len(capture.req.body.chunks)
  /\ LET chunk == capture.req.body.chunks[capture.received + 1]
         c == [capture EXCEPT !.received = @ + 1, !.size = @ + chunk]
     IN capture' =
          IF c.size > limit
          THEN Json([Cleanup(c) EXCEPT !.stream = "destroyed"], 413, "Payload too large")
          ELSE [c EXCEPT !.data = @ + chunk]
  /\ CaptureFrame

\* req.on('end'), after the last chunk (lines 93-115).
End ==
  /\ capture.stream = "flowing"
  /\ capture.received = Len(capture.req.body.chunks)
  /\ LET c == [Cleanup(capture) EXCEPT !.stream = "ended", !.rawBody = capture.data]
     IN capture' =
          IF c.data = 0 \/ c.req.body.text = "blank"
          THEN [c EXCEPT !.body = "{}", !.nexts = @ + 1]
          ELSE IF c.req.body.text = "json"
          THEN [c EXCEPT !.body = "parsed", !.nexts = @ + 1]
          ELSE Json(c, 400, "Invalid JSON")
  /\ CaptureFrame

\* req.on('error'): the stream fails, or the runtime reports the aborted
\* request as an error (lines 61-67).
Error ==
  /\ \/ capture.stream = "flowing"
     \/ capture.stream = "aborted" /\ capture.req.errorAfterAborted
  /\ LET c == [Cleanup(capture) EXCEPT !.stream = "errored"]
     IN capture' = IF c.responses = <<>> THEN Json(c, 400, "Stream error") ELSE c
  /\ CaptureFrame

\* req.on('aborted'): the client went away before the body was complete
\* (lines 69-72).
Aborted ==
  /\ capture.stream = "flowing"
  /\ capture' = [Cleanup(capture) EXCEPT !.stream = "aborted"]
  /\ CaptureFrame

\* The read timeout fires (lines 54-58).
Timeout ==
  /\ capture.timer = "armed"
  /\ capture' = Json([capture EXCEPT !.timer = "fired", !.stream = "destroyed"],
                     408, "Request timeout")
  /\ CaptureFrame

\* No event of the request is left to come.
Over(c) ==
  /\ c.stream \in {"ended", "errored", "destroyed", "aborted"}
  /\ c.stream = "aborted" => ~c.req.errorAfterAborted
  /\ c.timer # "armed"

\* The request is over and the next one arrives later.
Forget ==
  /\ Over(capture)
  /\ capture' = NoCapture
  /\ CaptureFrame

CaptureNext ==
  \/ \E r \in CaptureRequests : Arrives(r)
  \/ Data
  \/ End
  \/ Error
  \/ Aborted
  \/ Timeout
  \/ Forget

CaptureSpec == Init /\ [][CaptureNext]_vars

\* ================================================================== claims
Last(s) == s[Len(s)]

\* The steps of one handler attempt, in the order of the handler.
AllSteps ==
  <<"user-message-persisted", "history-fetched", "ai-invoked",
    "response-persisted", "delivered">>

\* The attempts of job j that have ended.
Finished(j, a) == a < invocations[j] \/ (a = invocations[j] /\ pc[j] = "idle")

\* The positions of outbox[j] filled by attempt a.
HandedBy(j, a) == {i \in 1..Len(outbox[j]) : outbox[j][i].attempt = a}

\* ---------------------------------------------------------------------- C1
C1_CompletedOnlyAfterFullRun ==
  \A j \in JobIds :
    jstate[j] = "completed" =>
      /\ steps[j] = AllSteps
      /\ original[j] = NoError
      /\ Last(outbox[j]).kind = "answer"
      /\ Last(outbox[j]).attempt = invocations[j]

C1_RaisedIsDelayedForRetry ==
  \A j \in JobIds :
    (pc[j] = "thrown" /\ pc'[j] = "idle" /\ attemptsMade'[j] < 3) =>
      jstate'[j] = "delayed"

\* C1: a job is completed only if the attempt that ended it ran all of the
\* steps 1-6 and returned without raising; an attempt that raises while fewer
\* than 3 attempts have been made is delayed for a retry, and a delayed job
\* is delivered to the handler again.
C1_AtLeastOnceDelivery ==
  /\ []C1_CompletedOnlyAfterFullRun
  /\ [][C1_RaisedIsDelayedForRetry]_vars
  /\ \A j \in JobIds : (jstate[j] = "delayed") ~> (jstate[j] = "active")

\* A job that was re-delivered after a raising attempt and then completed.
C1_Witness ==
  \E j \in JobIds : jstate[j] = "completed" /\ attemptsMade[j] >= 1

\* ---------------------------------------------------------------------- C2
\* C2: a job whose handler raised on its first two attempts and returned on
\* the third is not failed, has had exactly 3 handler invocations, and its
\* second attempt started at least 1s after the first failure and its third
\* at least 2s after the second failure.
C2_TwoFailuresThenSuccess ==
  \A j \in JobIds :
    (attemptsMade[j] = 2 /\ (pc[j] = "returned" \/ jstate[j] = "completed")) =>
      /\ jstate[j] \in {"active", "completed"}
      /\ invocations[j] = 3
      /\ Len(gaps[j]) = 2
      /\ gaps[j][1] >= 1
      /\ gaps[j][2] >= 2

C2_Witness ==
  \E j \in JobIds : jstate[j] = "completed" /\ attemptsMade[j] = 2

\* ---------------------------------------------------------------------- C3
C3_AtMostThreeInvocations ==
  \A j \in JobIds :
    /\ invocations[j] <= 3
    /\ attemptsMade[j] <= 3
    /\ attemptsMade[j] = 3 => jstate[j] = "failed"
    /\ jstate[j] = "failed" =>
         attemptsMade[j] = 3 /\ invocations[j] = 3 /\ pc[j] = "idle"

C3_FailedIsTerminal ==
  \A j \in JobIds :
    jstate[j] = "failed" =>
      /\ jstate'[j] = "failed"
      /\ pc'[j] = "idle"
      /\ invocations'[j] = invocations[j]

\* C3: the handler is invoked at most 3 times for a job; after the third
\* failed attempt the job is failed, and a failed job is never delivered to
\* the handler again.
C3_RetriesAreBounded ==
  /\ []C3_AtMostThreeInvocations
  /\ [][C3_FailedIsTerminal]_vars

C3_Witness ==
  \E j \in JobIds :
    jstate[j] = "failed" /\ invocations[j] = 3 /\ failedReason[j] = StoreError

\* ---------------------------------------------------------------------- C4
\* C4: every enqueued job eventually is completed or failed, whichever of
\* its awaited calls reject.
C4_EveryJobTerminates ==
  \A j \in JobIds :
    (jstate[j] \in {"waiting", "active", "delayed"})
      ~> (jstate[j] \in {"completed", "failed"})

\* A job that ended failed because both providers failed on its last attempt.
C4_Witness ==
  \E j \in JobIds : jstate[j] = "failed" /\ failedReason[j] = AllFailedError

\* ---------------------------------------------------------------------- C5
\* The AIService call of job j has ended.
CallEnded(c) == c.returned # NoResponse \/ c.raised # <<>>

\* C5: when primary.chat failed and a fallback is configured, fallback.chat is
\* invoked exactly once, with the message sequence primary.chat was given, and
\* what it returns is what processMessage returns; when primary.chat succeeded
\* the fallback is not invoked.
C5_FallbackOnceWithSameMessages ==
  \A j \in JobIds :
    LET c == ai[j] IN
    /\ Len(c.primaryCalls) <= 1
    /\ Len(c.fallbackCalls) <= 1
    /\ (c.primaryErr # NoError /\ fallbackConfigured /\ CallEnded(c)) =>
         /\ Len(c.fallbackCalls) = 1
         /\ c.fallbackCalls[1] = c.primaryCalls[1]
         /\ c.fallbackCalls[1] = BuildMessages(jdata[j].text, hist[j])
         /\ c.returned # NoResponse => c.returned \in FallbackResponses
    /\ (c.primaryCalls # <<>> /\ c.primaryErr = NoError) =>
         /\ c.fallbackCalls = <<>>
         /\ c.returned \in PrimaryResponses

\* The fallback answered a call whose history was not empty.
C5_Witness ==
  \E j \in JobIds :
    /\ ai[j].primaryErr # NoError
    /\ ai[j].returned \in FallbackResponses
    /\ Len(ai[j].fallbackCalls) = 1
    /\ Len(ai[j].fallbackCalls[1]) > 2

\* ---------------------------------------------------------------------- C6
\* The failure cause can be recovered from the raised error e.
Recoverable(cause, e) == e = cause \/ cause \in e.causes

\* C6: when both providers fail, exactly one failure is raised and the
\* failures of the primary and of the fallback are recoverable from it.
C6_RootCausesNotMasked ==
  \A j \in JobIds :
    LET c == ai[j] IN
    (c.primaryErr # NoError /\ c.fallbackErr # NoError) =>
      /\ Len(c.raised) = 1
      /\ Recoverable(c.primaryErr, c.raised[1])
      /\ Recoverable(c.fallbackErr, c.raised[1])

StepsBefore ==
  [progress10 |-> 0, findConv |-> 0, createConv |-> 0, insertUser |-> 0,
   countUser |-> 0, progress30 |-> 1, history |-> 1, progress50 |-> 2,
   aiPrimary |-> 2, aiFallback |-> 2, progress70 |-> 3, insertAsst |-> 3,
   countAsst |-> 3, progress90 |-> 4, send |-> 4, progress100 |-> 5,
   returned |-> 5]

\* C8: the steps of an attempt happen in the order user-message-persisted,
\* history-fetched, ai-invoked, response-persisted, delivered, each only
\* after every earlier one succeeded; the attempt persists an assistant
\* message only after its AI call succeeded and hands the AI content to the
\* dispatcher only after it persisted the assistant message.
C8_StepsInOrder ==
  \A j \in JobIds :
    /\ steps[j] = SubSeq(AllSteps, 1, Len(steps[j]))
    /\ pc[j] \in DOMAIN StepsBefore => Len(steps[j]) = StepsBefore[pc[j]]
    /\ \A i \in 1..Len(messages) :
         (messages[i].role = "assistant" /\ messages[i].origin = Origin(j)) =>
           /\ Len(steps[j]) >= 3
           /\ ai[j].returned # NoResponse
           /\ messages[i].content = ai[j].returned.content
    /\ \A i \in HandedBy(j, invocations[j]) :
         outbox[j][i].kind = "answer" =>
           /\ Len(steps[j]) >= 4
           /\ \E k \in 1..Len(messages) :
                /\ messages[k].role = "assistant"
                /\ messages[k].origin = Origin(j)
                /\ messages[k].content = outbox[j][i].text

\* A second attempt that went through all five steps.
C8_Witness ==
  \E j \in JobIds : steps[j] = AllSteps /\ invocations[j] = 2

\* ---------------------------------------------------------------------- C9
C9_OriginalFailureReachesQueue ==
  \A j \in JobIds :
    /\ pc[j] \in {"apology", "thrown"} => original[j] # NoError
    /\ pc[j] = "thrown" =>
         /\ err[j] = original[j]
         /\ outbox[j] # <<>>
         /\ Last(outbox[j]) = Handed(j, "apology", ApologyText)
    /\ (pc[j] = "idle" /\ jstate[j] \in {"delayed", "failed"}) =>
         failedReason[j] = original[j]

C9_NeverReturnsNormally ==
  \A j \in JobIds :
    pc[j] \in {"apology", "thrown"} =>
      /\ pc'[j] \in {"apology", "thrown", "idle"}
      /\ original'[j] = original[j]
      /\ pc'[j] = "idle" => jstate'[j] \in {"delayed", "failed"}
      /\ (pc[j] = "apology" /\ pc'[j] # "apology") =>
           /\ pc'[j] = "thrown"
           /\ Last(outbox'[j]) = Handed(j, "apology", ApologyText)

\* C9: when a step of an attempt raises, the handler hands the fixed apology
\* to the dispatcher for the job's channel and then rethrows the original
\* failure, which is what the queue records; a failure of the apology
\* dispatch does not replace it, and the attempt does not return normally.
C9_ApologyThenRethrow ==
  /\ []C9_OriginalFailureReachesQueue
  /\ [][C9_NeverReturnsNormally]_vars

\* The apology dispatch itself failed after a store failure.
C9_Witness ==
  \E j \in JobIds :
    /\ pc[j] = "thrown"
    /\ DispatcherThrows(jdata[j].platform, transport[j])
    /\ original[j] = StoreError

\* --------------------------------------------------------------------- C10
\* C10: for a telegram or slack job, every attempt that has ended handed
\* exactly one text to the dispatcher, the provider's content or the fixed
\* apology, and the job's apologies are as many as its failed attempts.
C10_ExactlyOneTextPerAttempt ==
  \A j \in JobIds :
    jdata[j].platform \in {"telegram", "slack"} =>
      /\ \A a \in 1..invocations[j] :
           Finished(j, a) => Cardinality(HandedBy(j, a)) = 1
      /\ \A i \in 1..Len(outbox[j]) :
           \/ outbox[j][i].kind = "apology" /\ outbox[j][i].text = ApologyText
           \/ outbox[j][i].kind = "answer"
              /\ outbox[j][i].text \in {r.content : r \in PrimaryResponses \cup FallbackResponses}
      /\ (pc[j] = "idle" =>
            Cardinality({i \in 1..Len(outbox[j]) : outbox[j][i].kind = "apology"})
              = attemptsMade[j])

\* --------------------------------------------------------------------- C11
\* The rows of the given role written for the inbound message of job j.
RowsOf(j, role) ==
  {i \in 1..Len(messages) : messages[i].role = role /\ messages[i].origin.job = j}

\* Job j is the only job that was enqueued.
Alone(j) == \A i \in JobIds \ {j} : jstate[i] = "none"

\* C11: a job that completed on its first attempt on a fresh store leaves
\* exactly one conversation, of the job's key, exactly one user message with
\* the inbound text, exactly one assistant message with non-empty content,
\* and exactly one text handed to the dispatcher, which is that content.
C11_EndToEnd ==
  \A j \in JobIds :
    (jstate[j] = "completed" /\ attemptsMade[j] = 0 /\ Alone(j)) =>
      /\ Len(conversations) = 1
      /\ conversations[1].platform = jdata[j].platform
      /\ conversations[1].channel_id = jdata[j].channelId
      /\ conversations[1].user_id = jdata[j].userId
      /\ conversations[1].is_active
      /\ Len(messages) = 2
      /\ messages[1].role = "user"
      /\ messages[1].content = jdata[j].text
      /\ messages[1].platform_message_id = jdata[j].messageId
      /\ messages[2].role = "assistant"
      /\ messages[2].content # ""
      /\ \A i \in 1..2 : messages[i].conversation_id = conversations[1].id
      /\ Len(outbox[j]) = 1
      /\ outbox[j][1].kind = "answer"
      /\ outbox[j][1].text = messages[2].content
      /\ outbox[j][1].channelId = jdata[j].channelId

\* A slack job answered by the primary provider on its first attempt.
C11_Witness ==
  \E j \in JobIds :
    /\ jstate[j] = "completed"
    /\ attemptsMade[j] = 0
    /\ jdata[j].platform = "slack"
    /\ ai[j].returned \in PrimaryResponses

\* --------------------------------------------------------------------- C12
\* The number of attempts of job j whose MessageModel.create for the inbound
\* message has resolved.
PastCreate(j) ==
  invocations[j] - early[j] - (IF pc[j] \in BeforeCreate THEN 1 ELSE 0)

\* C12: every attempt that gets past the insert of the inbound message adds
\* a user row with the job's platform_message_id to the job's conversation,
\* whatever rows earlier attempts left, so a job that completes after k
\* attempts that failed after that insert leaves k+1 such rows; an attempt
\* adds at most one assistant row, and exactly one once it has persisted the
\* response.
C12_RedeliveryDuplicatesMessages ==
  \A j \in JobIds :
    /\ Cardinality(RowsOf(j, "user")) = PastCreate(j)
    /\ \A i \in RowsOf(j, "user") :
         /\ messages[i].platform_message_id = jdata[j].messageId
         /\ messages[i].content = jdata[j].text
         /\ Alone(j) => messages[i].conversation_id = conversations[1].id
    /\ \A a \in 1..invocations[j] :
         /\ Cardinality({i \in RowsOf(j, "user") : messages[i].origin.attempt = a}) <= 1
         /\ Cardinality({i \in RowsOf(j, "assistant") : messages[i].origin.attempt = a}) <= 1
    /\ Len(steps[j]) >= 4 =>
         \E i \in RowsOf(j, "assistant") : messages[i].origin = Origin(j)
    /\ (jstate[j] = "completed" /\ early[j] = 0) =>
         Cardinality(RowsOf(j, "user")) = attemptsMade[j] + 1

\* A job that completed on its third attempt after two attempts that failed
\* behind the insert of the inbound message: three user rows.
C12_Witness ==
  \E j \in JobIds :
    /\ jstate[j] = "completed"
    /\ attemptsMade[j] = 2
    /\ early[j] = 0
    /\ Cardinality(RowsOf(j, "user")) = 3

\* --------------------------------------------------------------------- C13
\* The active conversations of a key.
ActiveOf(convs, k) ==
  {i \in 1..Len(convs) :
     /\ convs[i].platform = k.platform
     /\ convs[i].channel_id = k.channel_id
     /\ convs[i].user_id = k.user_id
     /\ convs[i].is_active}

C13_OneActivePerKeyWhenSequential ==
  ~raced =>
    /\ \A k \in Keys : Cardinality(ActiveOf(conversations, k)) <= 1
    /\ \A w \in Clients :
         (call[w].op = "getOrCreateConversation" /\ call[w].step = "done") =>
           /\ call[w].out \in ConversationIds
           /\ ConversationById(call[w].out).platform = call[w].key.platform
           /\ ConversationById(call[w].out).channel_id = call[w].key.channel_id
           /\ ConversationById(call[w].out).user_id = call[w].key.user_id

C13_CreatesOnlyWhenNoneActive ==
  \A w \in Clients :
    (~raced' /\ call[w].op = "getOrCreateConversation"
       /\ call[w].step # "done" /\ call'[w].step = "done") =>
      LET act == ActiveOf(conversations, call[w].key)
      IN IF act = {}
         THEN /\ Len(conversations') = Len(conversations) + 1
              /\ ActiveOf(conversations', call[w].key) = {Len(conversations')}
              /\ call'[w].out = conversations'[Len(conversations')].id
         ELSE /\ conversations' = conversations
              /\ act = {CHOOSE i \in act : TRUE}
              /\ \A i \in act : call'[w].out = conversations[i].id

\* C13: when no two calls overlap, a key has at most one active conversation;
\* a getOrCreateConversation that returns creates a conversation exactly
\* when the key has no active one, and otherwise returns the key's active
\* conversation and creates nothing.
C13_ReusesConversation ==
  /\ []C13_OneActivePerKeyWhenSequential
  /\ [][C13_CreatesOnlyWhenNoneActive]_vars

\* Two clients called one after the other for the same key and got the same
\* conversation.
C13_Witness ==
  /\ ~raced
  /\ \E w, v \in Clients :
       /\ w # v
       /\ call[w].op = "getOrCreateConversation" /\ call[w].step = "done"
       /\ call[v].op = "getOrCreateConversation" /\ call[v].step = "done"
       /\ call[w].key = call[v].key
       /\ call[w].out = call[v].out

\* --------------------------------------------------------------------- C14
\* C14: in every reachable state, whatever the interleaving of the clients'
\* getOrCreateConversation calls, a key has at most one active conversation.
C14_AtMostOneActivePerKey ==
  \A k \in Keys : Cardinality(ActiveOf(conversations, k)) <= 1

\* --------------------------------------------------------------------- C15
\* C15: when every addMessage and cleanupOldMessages call made so far has
\* completed, one after the other, each conversation's message_count equals
\* the number of rows persisted for it.
C15_CountEqualsRows ==
  ((\A w \in Clients : Resting(w)) /\ ~torn /\ ~raced) =>
    \A i \in 1..Len(conversations) :
      conversations[i].message_count
        = Len(MessagesOf(messages, conversations[i].id))

\* --------------------------------------------------------------------- C16
\* C16: no state shows a message row whose conversation has not been updated
\* for it (last_message_at older than the row), and an addMessage that
\* failed has left no row.
C16_AddMessageAtomic ==
  /\ \A i \in 1..Len(messages) :
       messages[i].conversation_id \in ConversationIds =>
         ConversationById(messages[i].conversation_id).last_message_at
           >= messages[i].created_at
  /\ \A w \in Clients :
       (call[w].op = "addMessage" /\ call[w].step = "failed") =>
         \A i \in 1..Len(messages) : messages[i].id # call[w].out

\* The second half of C16 alone: an addMessage that failed has left no row.
FailedAddMessageLeavesNoRow ==
  \A w \in Clients :
    (call[w].op = "addMessage" /\ call[w].step = "failed" /\ ~raced) =>
      \A i \in 1..Len(messages) : messages[i].id # call[w].out

\* --------------------------------------------------------------------- C17
\* C17: when an addMessage has completed, the last_message_at it left on the
\* conversation equals the created_at of the conversation's newest message.
C17_LastMessageAtIsNewestCreatedAt ==
  \A w \in Clients :
    (call[w].op = "addMessage" /\ call[w].step = "done") =>
      call[w].lastAt = call[w].newestAt

\* --------------------------------------------------------------------- C18
\* The token cost of a message: its recorded token_count, else
\* ceil(content length / 4).
Cost(m) ==
  IF m.token_count # 0 THEN m.token_count
  ELSE IF Len(m.content) % 4 = 0 THEN Len(m.content) \div 4
       ELSE Len(m.content) \div 4 + 1

RECURSIVE TotalCost(_)
TotalCost(ms) == IF ms = <<>> THEN 0 ELSE Cost(Head(ms)) + TotalCost(Tail(ms))

\* The getConversationHistory calls that have returned.
HistoryReturned(w) ==
  call[w].op = "getConversationHistory" /\ call[w].step = "done"

\* C18: a getConversationHistory call with maxTokens supplied returns at
\* least one message when the conversation has messages, and the cost of
\* what it returns, without the oldest returned message (the last one the
\* newest-first scan admitted), is at most maxTokens.
C18_HistoryWithinBudget ==
  \A w \in Clients :
    HistoryReturned(w) =>
      /\ call[w].before # <<>> => Len(call[w].result) >= 1
      /\ call[w].result # <<>> => TotalCost(Tail(call[w].result)) <= call[w].n

\* C18 for the budgets that are not 0.
HistoryWithinPositiveBudget ==
  \A w \in Clients :
    (HistoryReturned(w) /\ call[w].n > 0) =>
      /\ call[w].before # <<>> => Len(call[w].result) >= 1
      /\ call[w].result # <<>> => TotalCost(Tail(call[w].result)) <= call[w].n

\* --------------------------------------------------------------------- C19
Range(f) == {f[i] : i \in DOMAIN f}

\* C19: what getConversationHistory returns are rows of the conversation,
\* none twice, in non-decreasing created_at order, and with a row every
\* newer row of the conversation.
C19_HistoryIsSuffix ==
  \A w \in Clients :
    HistoryReturned(w) =>
      LET res == call[w].result
          all == call[w].before
      IN /\ Range(res) \subseteq Range(all)
         /\ Cardinality(Range(res)) = Len(res)
         /\ \A i, k \in 1..Len(res) :
              i < k => res[i].created_at <= res[k].created_at
         /\ \A m \in Range(all) : \A r \in Range(res) :
              m.created_at > r.created_at => m \in Range(res)

\* A history of two messages in order, and one that the budget truncated.
C19_Witness ==
  \E w \in Clients :
    /\ HistoryReturned(w)
    /\ Len(call[w].before) = 2
    /\ \/ Len(call[w].result) = 2 /\ call[w].n > 0
       \/ Len(call[w].result) = 1

\* --------------------------------------------------------------------- C20
Min(a, b) == IF a < b THEN a ELSE b

\* The cleanupOldMessages calls that have returned, none overlapping another
\* call.
CleanupReturned(w) ==
  call[w].op = "cleanupOldMessages" /\ call[w].step = "done" /\ ~raced

\* What C20 says of a cleanupOldMessages(id, N) that found the rows all and
\* left the rows res and returned out.
CleanupKeepsNewest(all, N, res, out) ==
  /\ Len(res) = Min(N, Len(all))
  /\ res = SubSeq(all, Len(all) - Len(res) + 1, Len(all))
  /\ out = Len(all) - Min(N, Len(all))

\* C20: cleanupOldMessages(id, N) leaves min(N, total) messages, the most
\* recently created ones, and returns total - min(N, total).
C20_CleanupKeepsNewest ==
  \A w \in Clients :
    CleanupReturned(w) =>
      CleanupKeepsNewest(call[w].before, call[w].n, call[w].result, call[w].out)

\* C20 for the keepCounts that are not 0.
CleanupKeepsNewestPositive ==
  \A w \in Clients :
    (CleanupReturned(w) /\ call[w].n > 0) =>
      CleanupKeepsNewest(call[w].before, call[w].n, call[w].result, call[w].out)

\* --------------------------------------------------------------------- C21
\* The router has taken a request of the route beyond its first statement.
Served(route) == hook.route = route /\ hook.step # "none"

\* The timestamp header is a number within the replay window of the clock
\* reading.
WithinWindow(currentTime, t) ==
  t.digits >= 0 /\ Abs(currentTime - t.digits) <= replayWindow

\* The header is 'v0=' and the hexadecimal digest of the timestamp and the
\* raw body of the request under the signing secret.
SlackSigned(req) ==
  req.signature = WithV0(HexDigest(Hmac(SigningSecret, req.timestamp, req.rawBody.raw)))

\* C21: verifySlackSignature returns true only if the timestamp of the
\* request is within 300 seconds of the current time and the signature is
\* 'v0=' followed by the HMAC-SHA256 of 'v0:{timestamp}:{rawBody}' under the
\* signing secret.
C21_SlackSignatureVerified ==
  (Served("slack") /\ hook.verified.called /\ ~hook.verified.raised
     /\ hook.verified.value) =>
    /\ WithinWindow(hook.now, hook.req.timestamp)
    /\ SlackSigned(hook.req)

\* What holds of verifySlackSignature: it returns true only for the exact
\* signature of timestamp and body, and only if the timestamp, when it
\* starts with a digit, is within the window.
SlackSignatureVerifiedUnlessNaN ==
  (Served("slack") /\ hook.verified.called /\ ~hook.verified.raised
     /\ hook.verified.value) =>
    /\ SlackSigned(hook.req)
    /\ hook.req.timestamp.digits >= 0 => WithinWindow(hook.now, hook.req.timestamp)

\* A correctly signed request at the edge of the window was verified.
SlackVerifiedAtEdge ==
  /\ Served("slack") /\ hook.verified.value
  /\ hook.req.timestamp.digits = hook.now - replayWindow

\* --------------------------------------------------------------------- C22
\* No job was handed to the queue for the request.
NothingEnqueued == hook.job = NoData /\ hook.added = <<>>

\* C22 as stated: with a Telegram webhook secret configured, every request
\* whose secret-token header is absent or differs from the secret is answered
\* with 401 and no job is enqueued; a request whose header matches is
\* authenticated without the HMAC signature being consulted.
C22_SecretTokenDecides ==
  (Served("telegram") /\ env.webhookSecret) =>
    /\ ~hook.verified.called
    /\ hook.req.secretToken # WebhookSecret =>
         hook.step = "responded" /\ hook.status = 401 /\ NothingEnqueued
    /\ (hook.req.secretToken = WebhookSecret /\ hook.req.rawBody.update_id) =>
         (hook.step = "responded" => hook.status # 401)

\* C22, amended: the same for the requests with a non-empty raw body; a
\* request with an empty raw body is answered with 400 before the header is
\* looked at, and no job is enqueued for it either.
C22_SecretTokenDecidesNonEmpty ==
  (Served("telegram") /\ env.webhookSecret) =>
    /\ ~hook.verified.called
    /\ hook.req.secretToken # WebhookSecret =>
         /\ hook.step = "responded" /\ NothingEnqueued
         /\ hook.status = IF hook.req.rawBody.raw = "" THEN 400 ELSE 401
    /\ (hook.req.secretToken = WebhookSecret /\ hook.req.rawBody.update_id) =>
         (hook.step = "responded" => hook.status # 401)

\* A request with the right secret token and a signature made with another
\* key had its message enqueued; one with a wrong token and the bot token's
\* own signature is what the first conjunct is about.
C22_Witness ==
  /\ Served("telegram") /\ env.webhookSecret
  /\ hook.req.secretToken = WebhookSecret
  /\ hook.req.signature.present /\ hook.req.signature.digest.key = ForeignKey
  /\ hook.added = <<TelegramJob(TextUpdate)>>

\* --------------------------------------------------------------------- C23
\* The header is the hexadecimal digest of the raw body of the request under
\* the bot token.
TelegramSigned(req) ==
  req.signature = HexDigest(Hmac(BotToken, NoTimestamp, req.rawBody.raw))

\* C23: with no Telegram webhook secret configured, a request without a
\* signature header is answered with 401 and no job is enqueued, and only a
\* request whose signature header equals the hexadecimal HMAC-SHA256 of the
\* raw body under the bot token is authenticated.
C23_OnlySignedTelegramAuthenticated ==
  (Served("telegram") /\ ~env.webhookSecret) =>
    /\ ~hook.req.signature.present =>
         hook.step = "responded" /\ hook.status = 401 /\ NothingEnqueued
    /\ ~TelegramSigned(hook.req) =>
         hook.step = "responded" /\ hook.status = 401 /\ NothingEnqueued

\* What holds of the fallback mode: a request with a non-empty body and no
\* signature header is answered with 401, and a request is authenticated only
\* if the bytes its header decodes to are the digest of its body under the
\* bot token; no job is enqueued for any other request.
TelegramAuthenticatedByBytes ==
  (Served("telegram") /\ ~env.webhookSecret) =>
    /\ (~hook.req.signature.present /\ hook.req.rawBody.raw # "") =>
         hook.step = "responded" /\ hook.status = 401 /\ NothingEnqueued
    /\ FromHex(hook.req.signature) # FromHex(HexDigest(Hmac(BotToken, NoTimestamp,
                                                            hook.req.rawBody.raw))) =>
         hook.step = "responded" /\ hook.status \in {400, 401} /\ NothingEnqueued

\* --------------------------------------------------------------------- C24
\* C24: whatever the body, the timestamp and the signature,
\* verifyTelegramBotTokenSignature and verifySlackSignature return a boolean
\* and do not raise.
C24_VerifiersNeverRaise ==
  hook.verified.called => ~hook.verified.raised

\* What holds: verifyTelegramBotTokenSignature does not raise, and
\* verifySlackSignature does not raise for a signature as long as the one it
\* expects.
VerifiersRaiseOnLengthOnly ==
  (hook.verified.called /\ hook.verified.raised) =>
    /\ hook.route = "slack"
    /\ Length(hook.req.signature) # Len("v0=") + 2 * DigestBytes

\* --------------------------------------------------------------------- C25
\* The request passes the authentication of its route as the interface
\* describes it.
Authentic ==
  IF hook.route = "telegram"
  THEN IF env.webhookSecret THEN hook.req.secretToken = WebhookSecret
       ELSE env.botToken /\ TelegramSigned(hook.req)
  ELSE /\ env.signingSecret
       /\ WithinWindow(hook.now, hook.req.timestamp)
       /\ SlackSigned(hook.req)

\* C25: every Telegram or Slack webhook request that fails authentication is
\* answered with 401 and causes no job to be enqueued.
C25_UnauthenticatedIsRejected ==
  ((Served("telegram") \/ Served("slack")) /\ ~Authentic) =>
    hook.step = "responded" /\ hook.status = 401 /\ NothingEnqueued

\* What holds: a request answered with an error status has enqueued nothing.
RejectedIsNeverEnqueued ==
  hook.status \in {400, 401, 500} => NothingEnqueued

\* --------------------------------------------------------------------- C26
\* The request carries a text message, as its route tells one.
CarriesText ==
  LET b == hook.req.rawBody
  IN IF hook.route = "telegram" THEN b.text # "" /\ b.channel # ""
     ELSE b.type = "event_callback" /\ b.event = "message" /\ b.user # "" /\ b.text # ""

\* The job data that carries the message of the request.
JobOf ==
  IF hook.route = "telegram" THEN TelegramJob(hook.req.rawBody)
  ELSE SlackJob(hook.req.rawBody)

\* C26: whenever a route answers 200 {ok:true} to a request carrying a text
\* message, exactly one job carrying that message has been enqueued; a
\* failure to enqueue is answered with 500.
C26_AcknowledgedMeansEnqueued ==
  ((Served("telegram") \/ Served("slack")) /\ hook.step = "responded" /\ CarriesText) =>
    /\ (hook.status = 200 /\ hook.reply = "ok") => hook.added = <<JobOf>>
    /\ (hook.job # NoData /\ hook.added = <<>>) => hook.status = 500

\* What holds: an acknowledged request carrying a text message was handed to
\* messageQueue.add once, with the job data of its message, and at most that
\* job was enqueued.
AcknowledgedWasHandedToQueue ==
  ((Served("telegram") \/ Served("slack")) /\ hook.step = "responded" /\ CarriesText
     /\ hook.status = 200) =>
    /\ hook.job = JobOf
    /\ hook.added \in {<<>>, <<JobOf>>}

\* --------------------------------------------------------------------- C27
\* The dispatcher knows the platform of job j.
Known(j) == jdata[j].platform \in {"telegram", "slack"}

\* The last text job j handed to the dispatcher did not reach the platform.
Undelivered(j) == transport[j] \in Transports \ {"sent"}

\* sendPlatformResponse returns whatever became of the text: the dispatch of
\* the answer goes on to job.progress(100) with no error caught, the dispatch
\* of the apology goes on to the rethrow of the error caught before, and a
\* handler that has returned leaves a completed job that is not run again.
C27_DispatchReturns ==
  \A j \in JobIds :
    Known(j) =>
      /\ (pc[j] = "send" /\ pc'[j] # "send") =>
           /\ pc'[j] = "progress100"
           /\ err'[j] = NoError /\ original'[j] = NoError
           /\ transport'[j] \in Transports
      /\ (pc[j] = "apology" /\ pc'[j] # "apology") =>
           pc'[j] = "thrown" /\ err'[j] = err[j]
      /\ (pc[j] = "returned" /\ pc'[j] # "returned") => jstate'[j] = "completed"
      /\ jstate[j] = "completed" =>
           /\ jstate'[j] = "completed"
           /\ invocations'[j] = invocations[j]
           /\ outbox'[j] = outbox[j]

\* An attempt whose dispatch of the answer failed and that is past it without
\* another failure has caught no error and handed no apology to the
\* dispatcher; once its job.progress(100) has resolved the job is completed
\* with no attempt counted as failed by it.
C27_FailedDispatchIsNoFailure ==
  \A j \in JobIds :
    (Known(j) /\ Undelivered(j)
       /\ (pc[j] \in {"progress100", "returned"} \/ jstate[j] = "completed")) =>
      /\ err[j] = NoError
      /\ \A i \in HandedBy(j, invocations[j]) : outbox[j][i].kind = "answer"
      /\ Cardinality(HandedBy(j, invocations[j])) = 1
      /\ jstate[j] = "completed" => attemptsMade[j] = invocations[j] - 1

C28_OverallHealth ==
  Served("health") =>
    LET h == hook.health
    IN /\ h.overall = (h.primary \/ (fallbackConfigured /\ h.fallback = "true"))
       /\ fallbackConfigured => h.fallback \in {"true", "false"}
       /\ ~fallbackConfigured => (h.fallback = "undefined" /\ h.overall = h.primary)
       /\ hook.status = 200

\* The primary is down and the fallback carries the service.
C28_Witness ==
  /\ Served("health")
  /\ fallbackConfigured
  /\ ~hook.health.primary /\ hook.health.fallback = "true"
  /\ hook.health.overall

\* --------------------------------------------------------------------- C29
\* The message lists handed to a provider's chat by the call of job j.
HandedToProviders(j) == Range(ai[j].primaryCalls) \cup Range(ai[j].fallbackCalls)

\* C29: every message list AIService.processMessage hands to a provider, the
\* primary or the fallback, is the fixed system instruction, then the history
\* it was given in the order given, then the new user message.
C29_MessageSequence ==
  \A j \in JobIds :
    \A ms \in HandedToProviders(j) :
      /\ Len(ms) = Len(hist[j]) + 2
      /\ ms[1] = SystemInstruction
      /\ ms[1].role = "system"
      /\ \A i \in 1..Len(hist[j]) : ms[i + 1] = hist[j][i]
      /\ ms[Len(ms)] = [role |-> "user", content |-> jdata[j].text]

\* Both providers were handed a history that holds an earlier answer between
\* two user messages.
C29_Witness ==
  \E j \in JobIds :
    /\ ai[j].primaryCalls # <<>> /\ ai[j].fallbackCalls # <<>>
    /\ Len(hist[j]) >= 3
    /\ \E i \in 2..(Len(hist[j]) - 1) : hist[j][i].role = "assistant"

\* --------------------------------------------------------------------- C30
\* The key of a conversation row.
KeyOf(c) == [platform |-> c.platform, channel_id |-> c.channel_id, user_id |-> c.user_id]

\* A deactivateConversation that returns has set is_active of the given
\* conversation to false and changed nothing else: no message, no other
\* column of the row, no other row.  When no calls overlap and the
\* conversation was active, its key has no active conversation afterwards.
C30_DeactivateFrame ==
  \A w \in Clients :
    (call[w].op = "deactivateConversation" /\ call[w].step = "update"
       /\ call'[w].step = "done") =>
      /\ messages' = messages
      /\ Len(conversations') = Len(conversations)
      /\ \A i \in 1..Len(conversations) :
           conversations'[i] =
             IF conversations[i].id = call[w].conv
             THEN [conversations[i] EXCEPT !.is_active = FALSE]
             ELSE conversations[i]
      /\ (~raced' /\ ConversationById(call[w].conv).is_active) =>
           ActiveOf(conversations', KeyOf(ConversationById(call[w].conv))) = {}

\* A conversation that is not active stays so, and when no calls overlap a
\* getOrCreateConversation that returns for a key whose conversations are
\* all deactivated has created a new active conversation of the key and left
\* every other row as it was.
C30_NewConversationAfterwards ==
  /\ \A i \in 1..Len(conversations) :
       ~conversations[i].is_active => ~conversations'[i].is_active
  /\ \A w \in Clients :
       (~raced' /\ call[w].op = "getOrCreateConversation"
          /\ call[w].step # "done" /\ call'[w].step = "done"
          /\ ActiveOf(conversations, call[w].key) = {}
          /\ \E i \in 1..Len(conversations) : KeyOf(conversations[i]) = call[w].key) =>
         /\ Len(conversations') = Len(conversations) + 1
         /\ \A i \in 1..Len(conversations) : conversations'[i] = conversations[i]
         /\ KeyOf(conversations'[Len(conversations')]) = call[w].key
         /\ conversations'[Len(conversations')].is_active
         /\ call'[w].out = conversations'[Len(conversations')].id
         /\ call'[w].out \notin ConversationIds

IsChallenge == hook.route = "slack" /\ hook.req.rawBody.type = "url_verification"

\* The response echoes the challenge of the request.
Echoed == hook.status = 200 /\ hook.reply = "challenge"

\* C31: a Slack request of type url_verification is answered with 200 and
\* the echoed challenge, with no job enqueued, only after its timestamp and
\* its signature passed verification; the same request without a valid
\* signature is answered with 401 and no challenge is echoed.
C31_ChallengeBehindVerification ==
  (Served("slack") /\ IsChallenge) =>
    /\ Echoed =>
         /\ hook.verified.called /\ ~hook.verified.raised /\ hook.verified.value
         /\ NothingEnqueued
    /\ ~SlackSigned(hook.req) =>
         hook.step = "responded" /\ hook.status = 401 /\ ~Echoed

\* What holds: the challenge is echoed only to a request verifySlackSignature
\* returned true for, which carries the exact signature of its timestamp and
\* body, and no job is enqueued for a URL verification; without that
\* signature the answer is 401, or 500 when the verifier raised.
ChallengeOnlyToSigned ==
  (Served("slack") /\ IsChallenge) =>
    /\ NothingEnqueued
    /\ hook.step = "responded"
    /\ Echoed =>
         /\ hook.verified.called /\ ~hook.verified.raised /\ hook.verified.value
         /\ SlackSigned(hook.req)
    /\ ~SlackSigned(hook.req) =>
         /\ ~Echoed
         /\ hook.status = IF hook.verified.raised THEN 500 ELSE 401

\* A signed URL verification had its challenge echoed.
ChallengeEchoed == Served("slack") /\ IsChallenge /\ Echoed

\* --------------------------------------------------------------------- C32
\* The comparisons of a received credential the request has gone through.
Comparisons ==
  {c \in {hook.tokenComparison, hook.verified.comparison} : c.made}

\* The comparison looked at as many bytes as the lengths of its operands
\* alone decide: all of the received value when the lengths agree, none when
\* they differ.
ConstantTime(c) ==
  c.examined = IF c.received = c.expected THEN c.received ELSE 0

\* C32: every comparison of a received credential against a secret-derived
\* value (the Telegram secret token, the Telegram HMAC, the Slack signature)
\* is constant-time: what it takes does not depend on how many leading bytes
\* of the received value match.
C32_ComparisonsAreConstantTime ==
  \A c \in Comparisons : ConstantTime(c)

\* What holds: the comparisons made by the two verifiers are constant-time,
\* and a secret-token header is compared up to its first wrong character.
VerifierComparisonsAreConstantTime ==
  /\ hook.verified.comparison.made => ConstantTime(hook.verified.comparison)
  /\ (hook.tokenComparison.made
        /\ hook.tokenComparison.received = hook.tokenComparison.expected) =>
       hook.tokenComparison.examined =
         FirstDifference(hook.req.secretToken, WebhookSecret)

\* A wrong HMAC of the right length was compared in full.
WrongDigestComparedInFull ==
  /\ hook.verified.comparison.made /\ ~hook.verified.value
  /\ hook.verified.comparison.examined = DigestBytes

\* --------------------------------------------------------------------- C33
\* Job j is in its first attempt, or has completed on it, on a store no
\* other job has written to: its conversation is fresh.
OnFreshConversation(j) == Alone(j) /\ invocations[j] = 1

\* The inbound message of job j as a provider sees it.
Inbound(j) == [role |-> "user", content |-> jdata[j].text]

\* C33: for a job processed on a fresh conversation the sequence delivered
\* to the provider is exactly the system instruction and the user message
\* with the job's text: the inbound text appears once, as the last element,
\* and not also in the history fetched after the user message was persisted.
C33_InboundTextOnce ==
  \A j \in JobIds :
    OnFreshConversation(j) =>
      \A ms \in HandedToProviders(j) : ms = <<SystemInstruction, Inbound(j)>>

\* What holds: the history is fetched after the user message was persisted
\* and holds it, and processMessage appends the text again, so the provider
\* is handed the inbound message twice.
InboundTextTwice ==
  \A j \in JobIds :
    OnFreshConversation(j) =>
      \A ms \in HandedToProviders(j) :
        ms = <<SystemInstruction, Inbound(j), Inbound(j)>>

\* The primary provider was called by a job on a fresh conversation.
ProviderCalledOnFresh ==
  \E j \in JobIds : OnFreshConversation(j) /\ ai[j].primaryCalls # <<>>

\* --------------------------------------------------------------------- C34
\* The ids of the rows of a table.
IdsOf(msgs) == {msgs[i].id : i \in 1..Len(msgs)}

\* The delete of the cleanupOldMessages of client w takes effect.
CleanupDeletes(w) ==
  /\ call[w].op = "cleanupOldMessages"
  /\ call[w].step = "delete" /\ call'[w].step = "done"

\* The delete spares the rows that are the N most recently created when it
\* takes effect.
CleanupSparesNewest ==
  \A w \in Clients :
    CleanupDeletes(w) =>
      newestIds(messages, call[w].conv, call[w].n) \subseteq IdsOf(messages')

\* C34: a cleanupOldMessages(id, N) that runs concurrently with addMessage
\* for the same conversation deletes no message that is among the N most
\* recently created when its delete takes effect; a message inserted between
\* its select of the ids to keep and its delete is not removed.
C34_CleanupSparesNewest == [][CleanupSparesNewest]_vars

\* The delete removes every row of the conversation that the select did not
\* return, the rows inserted since included, and no row of another
\* conversation.
CleanupDeletesUnselected ==
  \A w \in Clients :
    CleanupDeletes(w) =>
      /\ IdsOf(MessagesOf(messages', call[w].conv))
           = IdsOf(MessagesOf(messages, call[w].conv)) \cap call[w].ids
      /\ \A i \in 1..Len(messages) :
           messages[i].conversation_id # call[w].conv =>
             messages[i].id \in IdsOf(messages')

\* What holds of the delete in every interleaving.
CleanupDeletesAllUnselected == [][CleanupDeletesUnselected]_vars

\* --------------------------------------------------------------------- C35
\* The conversations that hold a message.
Written == {messages[i].conversation_id : i \in 1..Len(messages)}

\* The row answers the other: both were written by the same attempt of the
\* same job, the one as the user message with the job's text and the other
\* as the assistant message.
Answers(a, u) ==
  /\ a.role = "assistant" /\ u.role = "user"
  /\ a.origin = u.origin
  /\ u.content = WorkerJob(u.origin.job).text
  /\ u.platform_message_id = WorkerJob(u.origin.job).messageId

\* C35: when two jobs for the same conversation are executed concurrently by
\* different workers, the persisted history still pairs each exchange: every
\* assistant message is immediately preceded, in created_at order, by the
\* user message it answers.
C35_ExchangesArePaired ==
  \A c \in Written :
    LET rows == MessagesOf(messages, c)
    IN \A i \in 1..Len(rows) :
         rows[i].role = "assistant" => (i > 1 /\ Answers(rows[i], rows[i - 1]))

\* C35, amended: every assistant message is preceded, in created_at order,
\* by the user message it answers, and the messages between the two were all
\* written by other jobs.
C35_ExchangesAreOrdered ==
  \A c \in Written :
    LET rows == MessagesOf(messages, c)
    IN \A i \in 1..Len(rows) :
         rows[i].role = "assistant" =>
           \E k \in 1..(i - 1) :
             /\ Answers(rows[i], rows[k])
             /\ \A m \in (k + 1)..(i - 1) : rows[m].origin.job # rows[i].origin.job

\* Both jobs have returned, and the messages of the one lie between the user
\* message and the answer of the other.
C35_Witness ==
  /\ \A w \in Clients : Ended(w) /\ call[w].step = "done"
  /\ \E c \in Written :
       LET rows == MessagesOf(messages, c)
       IN /\ Len(rows) = 4
          /\ rows[1].role = "user" /\ rows[2].role = "user"
          /\ rows[4].origin = rows[1].origin
          /\ rows[3].origin = rows[2].origin

\* --------------------------------------------------------------------- C36
\* The attempts of job j in which a provider is known to have answered: the
\* attempts that persisted an assistant message, and the current one once it
\* is past the call of the AI service.
AnsweredAttempts(j) ==
  {messages[i].origin.attempt : i \in RowsOf(j, "assistant")}
    \cup (IF "ai-invoked" \in Range(steps[j]) THEN {invocations[j]} ELSE {})

\* C36: duplicate processing is avoided: for one platform message at most
\* one provider call succeeds and at most one assistant message is persisted,
\* even when the queue delivers the job again after a failure that followed
\* the AI call.
C36_NoDuplicateProcessing ==
  \A j \in JobIds :
    /\ Cardinality(AnsweredAttempts(j)) <= 1
    /\ Cardinality(RowsOf(j, "assistant")) <= 1

\* What holds: an attempt calls the AI service again whatever earlier
\* attempts did, so the attempts of a job answer and persist at most once
\* each, and at most `attempts` times in all.
AnsweredOncePerAttempt ==
  \A j \in JobIds :
    /\ AnsweredAttempts(j) \subseteq 1..invocations[j]
    /\ Cardinality(RowsOf(j, "assistant")) <= Cardinality(AnsweredAttempts(j))
    /\ Cardinality(AnsweredAttempts(j)) <= attempts

\* Every attempt the queue grants has persisted an answer of its own.
AnsweredEveryAttempt ==
  \E j \in JobIds : Cardinality(RowsOf(j, "assistant")) = attempts

\* --------------------------------------------------------------------- C37
\* The addMessage calls for the conversation that return in this step.
Returning(id) ==
  {w \in Clients :
     /\ call[w].op = "addMessage" /\ call[w].conv = id
     /\ call[w].step = "increment" /\ call'[w].step = "done"}

\* In every step the message_count of every conversation grows by the number
\* of addMessage calls for it that return in the step, which is none or one,
\* and a conversation starts with a count of zero.
CountsCompletedCalls ==
  /\ Len(conversations') >= Len(conversations)
  /\ \A i \in 1..Len(conversations) :
       /\ conversations'[i].id = conversations[i].id
       /\ conversations'[i].message_count
            = conversations[i].message_count + Cardinality(Returning(conversations[i].id))
  /\ \A i \in (Len(conversations) + 1)..Len(conversations') :
       conversations'[i].message_count = 0

\* C37: message_count never decreases, and n completed addMessage calls on
\* one conversation increase it by exactly n in every interleaving of
\* concurrent workers: no update is lost.
C37_NoLostUpdate == [][CountsCompletedCalls]_vars

\* Two addMessage calls for one conversation overlapped, both have returned,
\* and the count is two.
C37_Witness ==
  /\ raced
  /\ \E i \in 1..Len(conversations) :
       /\ conversations[i].message_count = 2
       /\ \A w \in Clients :
            /\ call[w].op = "addMessage" /\ call[w].step = "done"
            /\ call[w].conv = conversations[i].id
            /\ call[w].lastAt > 0
       /\ \E w, v \in Clients : call[w].out < call[v].out /\ call[v].out < call[w].lastAt

\* --------------------------------------------------------------------- C38
\* The completion holds no content to return.
WithoutContent(c) == ~c.failed /\ (c.choices = 0 \/ ~c.hasContent \/ c.content = "")

\* The error the chat of the named provider throws for a completion without
\* content.
NoContentError(name) == Err(name \o " API failed: " \o "No content in AI response")

\* A chat returns only a response with content, and throws for a completion
\* without content, as for a failed request, one error whose message begins
\* with the name of the provider.
ChatNormalizes(name, text) ==
  \A c \in Completions(text, 0) \cup Completions(text, 12) :
    LET r == chat(name, c)
    IN /\ ~r.threw => (r.response.content = text /\ text # "" /\ r.error = NoError)
       /\ WithoutContent(c) => (r.threw /\ r.error = NoContentError(name))
       /\ c.failed => (r.threw /\ r.error = Err(name \o " API failed: " \o c.message))
       /\ r.threw => r.response = NoResponse

\* C38: a provider's chat never returns empty or missing content: such a
\* completion, like a failed request, becomes one failure with a message
\* prefixed by the provider, which makes the AI service turn to the fallback;
\* so no assistant message with empty content is persisted or dispatched.
C38_NoEmptyContent ==
  /\ ChatNormalizes("OpenAI", "primary answer")
  /\ ChatNormalizes("Self-hosted", "fallback answer")
  /\ \A j \in JobIds :
       /\ ai[j].returned # NoResponse => ai[j].returned.content # ""
       /\ ai[j].primaryErr # NoError =>
            /\ ai[j].primaryErr \in {NoContentError("OpenAI"), PrimaryError}
            /\ fallbackConfigured =>
                 (pc[j] = "aiFallback" \/ Len(ai[j].fallbackCalls) = 1)
       /\ ai[j].fallbackErr # NoError =>
            ai[j].fallbackErr \in {NoContentError("Self-hosted"), FallbackError}
       /\ \A i \in 1..Len(outbox[j]) : outbox[j][i].text # ""
  /\ \A i \in 1..Len(messages) :
       messages[i].role = "assistant" => messages[i].content # ""

\* The primary's completion had no content, the fallback answered, and its
\* answer was persisted and dispatched.
C38_Witness ==
  \E j \in JobIds :
    /\ ai[j].primaryErr = NoContentError("OpenAI")
    /\ ai[j].returned \in FallbackResponses
    /\ \E i \in RowsOf(j, "assistant") :
         messages[i].origin = Origin(j) /\ messages[i].content = ai[j].returned.content
    /\ outbox[j] # <<>> /\ Last(outbox[j]).text = ai[j].returned.content

\* ---------------------------------------------------------------- C39
\* The middleware passed the request on: it called next().
PassedOn(c) == c.nexts > 0

\* The whole body arrived within the byte limit and the timeout and was
\* parsed as JSON.
ArrivedAndParsed(c) ==
  /\ c.stream = "ended"
  /\ c.received = Len(c.req.body.chunks)
  /\ c.size <= limit
  /\ c.timer # "fired"
  /\ c.body = "parsed"

\* The middleware sent one error response, of status 413, 408 or 400.
SingleErrorResponse(c) ==
  /\ Len(c.responses) = 1
  /\ c.responses[1].status \in {413, 408, 400}
  /\ ~c.threw

\* C39: once no event of a request to a /webhook route is left to come, the
\* raw-body middleware has done exactly one of two things: it passed the
\* request on, the whole body having arrived within the byte limit and the
\* timeout and having parsed as JSON, or it sent a single error response
\* (413, 408 or 400).
C39_ExactlyOneOutcome ==
  (capture.stream # "none" /\ Over(capture)) =>
    /\ PassedOn(capture) # (capture.responses # <<>>)
    /\ PassedOn(capture) => capture.nexts = 1 /\ ArrivedAndParsed(capture)
    /\ ~PassedOn(capture) => SingleErrorResponse(capture)

\* What holds of the middleware in every state: it never both passes the
\* request on and responds, it never calls next() twice and never responds
\* twice, and a request over the limit or timed out is never passed on.
NeverBothNeverTwice ==
  /\ ~(PassedOn(capture) /\ capture.responses # <<>>)
  /\ capture.nexts <= 1
  /\ Len(capture.responses) <= 1
  /\ ~capture.threw
  /\ (capture.size > limit \/ capture.timer = "fired") => ~PassedOn(capture)

\* What does not hold: the request is over, the middleware neither passed it
\* on nor sent a response.
NoOutcomeNeverHappens ==
  ~(/\ capture.stream # "none" /\ Over(capture)
    /\ ~PassedOn(capture) /\ capture.responses = <<>>)

\* What does not hold: a request is passed on only with a parsed body.
PassedOnOnlyParsed == PassedOn(capture) => capture.body = "parsed"

\* What does not hold: a response the middleware sends reaches the client.
ResponsesAreDelivered ==
  \A i \in 1..Len(capture.responses) : capture.responses[i].delivered

\* ---------------------------------------------------------------- C40
\* The message of the request was posted by a bot.
FromBot == hook.req.rawBody.bot_id # ""

\* The route enqueues a job for the request: it calls messageQueue.add, and
\* the job is in the queue when the call resolves.
Enqueues == hook.step = "adding" \/ hook.added # <<>>

\* C40: the Slack endpoint ignores bot messages: a message event produced by
\* the bot's own reply is never enqueued.
C40_BotMessagesIgnored ==
  (hook.route = "slack" /\ FromBot) => ~Enqueues

\* What holds of the endpoint: the message events it ignores are those
\* without a user or without a text, and a verified message event with both
\* is enqueued whoever posted it.
IgnoresOnlyWithoutUserOrText ==
  (/\ Served("slack") /\ hook.status = 200 /\ hook.reply = "ok"
   /\ hook.req.rawBody.type = "event_callback"
   /\ hook.req.rawBody.event = "message")
    => (hook.job.platform = "slack"
          <=> (hook.req.rawBody.user # "" /\ hook.req.rawBody.text # ""))

\* A bot's message was enqueued and acknowledged.
BotMessageEnqueued ==
  Served("slack") /\ FromBot /\ hook.added # <<>> /\ hook.status = 200

====
